---- MODULE Spec2Model ----
(***************************************************************************)
(* Model of readthedocs/config/config.py: load(), the version dispatch,    *)
(* and the stage-by-stage validation of a raw configuration document by    *)
(* BuildConfigV1 and BuildConfigV2.                                        *)
(*                                                                         *)
(* A parsed YAML value is a tagged record [t, v]; a mapping keeps its keys *)
(* in document order as a sequence of [k, val] entries, because the        *)
(* unknown-key sweep depends on that order.  Strings are TLA+ strings and  *)
(* are taken apart character by character with SubSeq where the code looks *)
(* at characters (strip, startswith, the regular expressions, int()).      *)
(* Documents are over string keys and contain no line breaks.              *)
(***************************************************************************)
EXTENDS Integers, Sequences, FiniteSets, TLC

(***************************************************************************)
(* Bounds of the model                                                     *)
(***************************************************************************)
\* longest apt package name that is enumerated character by character
MaxNameLen == 3
\* most entries of the project root that discovery looks at
MaxRootFiles == 1
\* most entries of build.apt_packages in the multi-entry documents
MaxAptEntries == 2

(***************************************************************************)
(* Parsed values                                                           *)
(***************************************************************************)
Str(s) == [t |-> "str", v |-> s]
Num(n) == [t |-> "int", v |-> n]
\* a float, held in tenths: Float(31) is 3.1
Float(tenths) == [t |-> "float", v |-> tenths]
Bool(b) == [t |-> "bool", v |-> b]
Null == [t |-> "null", v |-> 0]
List(items) == [t |-> "list", v |-> items]
Dict(entries) == [t |-> "dict", v |-> entries]
KV(key, value) == [k |-> key, val |-> value]
EmptyDict == Dict(<<>>)
EmptyList == List(<<>>)

\* Python truthiness of a parsed value
Truthy(x) ==
  CASE x.t = "str" -> x.v # ""
    [] x.t = "int" -> x.v # 0
    [] x.t = "float" -> x.v # 0
    [] x.t = "bool" -> x.v
    [] x.t = "null" -> FALSE
    [] x.t = "list" -> x.v # <<>>
    [] x.t = "dict" -> x.v # <<>>

\* value == 'literal'
EqStr(x, s) == x.t = "str" /\ x.v = s

(***************************************************************************)
(* Character-level helpers on strings                                      *)
(***************************************************************************)
CharAt(s, i) == SubSeq(s, i, i)
Digits == <<"0", "1", "2", "3", "4", "5", "6", "7", "8", "9">>
IsDigit(c) == \E i \in 1..10 : Digits[i] = c
\* the blanks str.strip() removes
IsSpace(c) == c \in {" ", "\t", "\n", "\r", "\f"}

\* str.startswith(prefix)
StartsWith(s, prefix) ==
  Len(s) >= Len(prefix) /\ SubSeq(s, 1, Len(prefix)) = prefix

\* str.strip(): blanks are taken off the front, then off the back
RECURSIVE Strip(_)
Strip(s) ==
  IF Len(s) > 0 /\ IsSpace(CharAt(s, 1)) THEN Strip(SubSeq(s, 2, Len(s)))
  ELSE IF Len(s) > 0 /\ IsSpace(CharAt(s, Len(s))) THEN Strip(SubSeq(s, 1, Len(s) - 1))
  ELSE s

\* '.'.join(parts)
RECURSIVE Join(_)
Join(parts) ==
  IF parts = <<>> THEN ""
  ELSE IF Len(parts) = 1 THEN parts[1]
  ELSE parts[1] \o "." \o Join(Tail(parts))

\* key.split('.'): the text before the first dot, then the split of the rest
RECURSIVE Split(_)
Split(s) ==
  IF \A i \in 1..Len(s) : CharAt(s, i) # "." THEN <<s>>
  ELSE <<SubSeq(s, 1, (CHOOSE i \in 1..Len(s) :
                         /\ CharAt(s, i) = "."
                         /\ \A j \in 1..(i - 1) : CharAt(s, j) # ".") - 1)>>
         \o Split(SubSeq(s, (CHOOSE i \in 1..Len(s) :
                               /\ CharAt(s, i) = "."
                               /\ \A j \in 1..(i - 1) : CharAt(s, j) # ".") + 1, Len(s)))

\* str(n) for a natural number
RECURSIVE NatToStr(_)
NatToStr(n) ==
  IF n < 10 THEN Digits[n + 1] ELSE NatToStr(n \div 10) \o Digits[(n % 10) + 1]

(***************************************************************************)
(* Mappings in document order                                              *)
(***************************************************************************)
HasKey(d, key) == \E i \in 1..Len(d.v) : d.v[i].k = key
KeyIndex(d, key) == CHOOSE i \in 1..Len(d.v) : d.v[i].k = key
\* container[key]
Get(d, key) == d.v[KeyIndex(d, key)].val
\* container.get(key, default)
GetOr(d, key, default) == IF HasKey(d, key) THEN Get(d, key) ELSE default
\* container.pop(key): the other entries keep their order
DictRemove(d, key) ==
  Dict(SubSeq(d.v, 1, KeyIndex(d, key) - 1) \o SubSeq(d.v, KeyIndex(d, key) + 1, Len(d.v)))
\* container[key] = value: an existing key keeps its place, a new key goes last
DictSet(d, key, value) ==
  IF HasKey(d, key)
  THEN Dict([i \in 1..Len(d.v) |-> IF d.v[i].k = key THEN KV(key, value) ELSE d.v[i]])
  ELSE Dict(Append(d.v, KV(key, value)))
\* list_to_dict: {str(i): v for i, v in enumerate(list_)}
list_to_dict(items) == Dict([i \in 1..Len(items) |-> KV(NatToStr(i - 1), items[i])])

(***************************************************************************)
(* Errors                                                                  *)
(***************************************************************************)
CONFIG_NOT_SUPPORTED == "config-not-supported"
VERSION_INVALID == "version-invalid"
CONFIG_SYNTAX_INVALID == "config-syntax-invalid"
CONFIG_REQUIRED == "config-required"
CONFIG_FILE_REQUIRED == "config-file-required"
PYTHON_INVALID == "python-invalid"
SUBMODULES_INVALID == "submodules-invalid"
INVALID_KEYS_COMBINATION == "invalid-keys-combination"
INVALID_KEY == "invalid-key"
INVALID_NAME == "invalid-name"

\* codes of the validation primitives (readthedocs/config/validation.py)
VALUE_NOT_FOUND == "value-not-found"
INVALID_BOOL == "invalid-bool"
INVALID_CHOICE == "invalid-choice"
INVALID_LIST == "invalid-list"
INVALID_DICT == "invalid-dict"
INVALID_STRING == "invalid-string"

NoErr == [kind |-> "none", code |-> "", key |-> ""]
\* InvalidConfig(key, code, ...)
InvalidConfig(key, code) == [kind |-> "InvalidConfig", code |-> code, key |-> key]
\* ConfigError(message, code) and its file-not-found subclasses
ConfigError(kind, code) == [kind |-> kind, code |-> code, key |-> ""]
\* an exception that is no ConfigError
Uncaught(kind) == [kind |-> kind, code |-> "", key |-> ""]
IsErr(e) == e.kind # "none"

(***************************************************************************)
(* Validation primitives: "" when the value passes, else the failure code  *)
(***************************************************************************)
validate_dict(x) == IF x.t = "dict" THEN "" ELSE INVALID_DICT
validate_list(x) == IF x.t = "list" THEN "" ELSE INVALID_LIST
\* value in (0, 1, False, True); 0.0 and 1.0 compare equal to 0 and 1
validate_bool(x) ==
  IF \/ x.t = "bool"
     \/ x.t = "int" /\ x.v \in {0, 1}
     \/ x.t = "float" /\ x.v \in {0, 10}
  THEN "" ELSE INVALID_BOOL
\* membership in a set of strings
validate_choice(x, choices) ==
  IF x.t = "str" /\ x.v \in choices THEN "" ELSE INVALID_CHOICE
\* a relative path that stays inside the base directory
validate_path(x) ==
  IF x.t # "str" THEN INVALID_STRING
  ELSE IF StartsWith(x.v, "/") \/ StartsWith(x.v, "..") THEN "invalid-path"
  ELSE ""
\* every item of a list passes validate_string
AllStrings(items) == \A i \in 1..Len(items) : items[i].t = "str"

(***************************************************************************)
(* BuildConfigBase.pop                                                     *)
(***************************************************************************)
\* result of a pop: the failure code ("" when none), the value, the container
PopResult(code, value, container) == [code |-> code, val |-> value, c |-> container]

RECURSIVE pop(_, _, _, _)
pop(name, container, default, raise_ex) ==
  IF validate_dict(container) # "" THEN PopResult(INVALID_DICT, default, container)
  ELSE IF HasKey(container, name[1])
  THEN IF Len(name) > 1
       THEN LET inner == pop(Tail(name), Get(container, name[1]), default, raise_ex)
            IN IF inner.code # "" THEN PopResult(inner.code, default, container)
               ELSE IF ~Truthy(inner.c)
               THEN PopResult("", inner.val, DictRemove(container, name[1]))
               ELSE PopResult("", inner.val, DictSet(container, name[1], inner.c))
       ELSE PopResult("", Get(container, name[1]), DictRemove(container, name[1]))
  ELSE IF raise_ex THEN PopResult(VALUE_NOT_FOUND, default, container)
  ELSE PopResult("", default, container)

\* 'key in container' at every level of the path name
RECURSIVE HasPath(_, _)
HasPath(container, name) ==
  /\ container.t = "dict"
  /\ HasKey(container, name[1])
  /\ Len(name) = 1 \/ HasPath(Get(container, name[1]), Tail(name))

\* pop_config that reads the value and leaves the mapping as it was
pop_config_without_removal(raw, key, default, raise_ex) ==
  [pop(Split(key), raw, default, raise_ex) EXCEPT !.c = raw]
pop_config(raw, key, default, raise_ex) == pop(Split(key), raw, default, raise_ex)

(***************************************************************************)
(* Settings (readthedocs/settings/base.py) and module constants            *)
(***************************************************************************)
ALL == "all"
PIP == "pip"
SETUPTOOLS == "setuptools"
DOCKER_DEFAULT_IMAGE == "readthedocs/build"
DOCKER_DEFAULT_VERSION == "latest"
default_build_image == DOCKER_DEFAULT_VERSION

\* version part of the keys of DOCKER_IMAGE_SETTINGS, in order of definition
ImageVersions == <<"2.0", "4.0", "5.0", "6.0", "7.0", "stable", "latest", "testing">>
ImageNames == {DOCKER_DEFAULT_IMAGE \o ":" \o ImageVersions[i] : i \in 1..Len(ImageVersions)}

\* DOCKER_IMAGE_SETTINGS[image]['python']['supported_versions']
SupportedVersions(image) ==
  CASE image \in {"readthedocs/build:2.0"} ->
         <<Str("2"), Str("2.7"), Str("3"), Str("3.5")>>
    [] image \in {"readthedocs/build:4.0"} ->
         <<Str("2"), Str("2.7"), Str("3"), Str("3.5"), Str("3.6"), Float(37)>>
    [] image \in {"readthedocs/build:5.0", "readthedocs/build:stable"} ->
         <<Str("2"), Str("2.7"), Str("3"), Str("3.5"), Str("3.6"), Str("3.7"), Str("pypy3.5")>>
    [] image \in {"readthedocs/build:6.0", "readthedocs/build:latest"} ->
         <<Str("2"), Str("2.7"), Str("3"), Str("3.5"), Str("3.6"), Str("3.7"), Str("3.8"),
           Str("pypy3.5")>>
    [] image \in {"readthedocs/build:7.0", "readthedocs/build:testing"} ->
         <<Str("2"), Str("2.7"), Str("3"), Str("3.5"), Str("3.6"), Str("3.7"), Str("3.8"),
           Str("3.9"), Str("3.10"), Str("pypy3.5")>>

\* RTD_DOCKER_BUILD_SETTINGS['tools'][tool]: version -> full version
ToolVersions(tool) ==
  CASE tool = "python" ->
         [ver \in {"2.7", "3.6", "3.7", "3.8", "3.9", "3.10", "3.11", "pypy3.7", "pypy3.8",
                   "pypy3.9", "miniconda3-4.7", "mambaforge-4.10", "3"} |->
            CASE ver = "2.7" -> "2.7.18"
              [] ver = "3.6" -> "3.6.15"
              [] ver = "3.7" -> "3.7.15"
              [] ver = "3.8" -> "3.8.15"
              [] ver = "3.9" -> "3.9.15"
              [] ver = "3.10" -> "3.10.8"
              [] ver = "3.11" -> "3.11.0"
              [] ver = "pypy3.7" -> "pypy3.7-7.3.9"
              [] ver = "pypy3.8" -> "pypy3.8-7.3.9"
              [] ver = "pypy3.9" -> "pypy3.9-7.3.9"
              [] ver = "miniconda3-4.7" -> "miniconda3-4.7.12"
              [] ver = "mambaforge-4.10" -> "mambaforge-4.10.3-10"
              [] ver = "3" -> "3.11.0"]
    [] tool = "nodejs" ->
         [ver \in {"14", "16", "18", "19"} |->
            CASE ver = "14" -> "14.20.1"
              [] ver = "16" -> "16.18.0"
              [] ver = "18" -> "18.11.0"
              [] ver = "19" -> "19.0.0"]
    [] tool = "rust" ->
         [ver \in {"1.55", "1.61", "1.64"} |->
            CASE ver = "1.55" -> "1.55.0"
              [] ver = "1.61" -> "1.61.0"
              [] ver = "1.64" -> "1.64.0"]
    [] tool = "golang" ->
         [ver \in {"1.17", "1.18", "1.19"} |->
            CASE ver = "1.17" -> "1.17.13"
              [] ver = "1.18" -> "1.18.7"
              [] ver = "1.19" -> "1.19.2"]

\* BuildJobs.__slots__ (readthedocs/config/models.py)
BuildJobNames == <<"pre_checkout", "post_checkout", "pre_system_dependencies",
                   "post_system_dependencies", "pre_create_environment",
                   "post_create_environment", "pre_install", "post_install",
                   "pre_build", "post_build">>

\* valid_formats with epub left out
valid_formats_without_epub == <<"htmlzip", "pdf">>
\* BuildConfigV2.valid_formats
valid_formats == <<"htmlzip", "pdf", "epub">>
\* valid_install_method with setuptools left out
valid_install_method_pip_only == {PIP}
valid_install_method == {PIP, SETUPTOOLS}
\* BuildConfigV2.valid_sphinx_builders
valid_sphinx_builders ==
  [b \in {"html", "htmldir", "dirhtml", "singlehtml"} |->
     CASE b = "html" -> "sphinx"
       [] b = "htmldir" -> "sphinx_htmldir"
       [] b = "dirhtml" -> "sphinx_htmldir"
       [] b = "singlehtml" -> "sphinx_singlehtml"]

\* the elements of a sequence
Range(seq) == {seq[i] : i \in 1..Len(seq)}
\* the Python strings among a set of values
StrMembers(values) == {x.v : x \in {y \in values : y.t = "str"}}
\* a list of Python strings as a parsed list
StrList(strings) == List([i \in 1..Len(strings) |-> Str(strings[i])])

\* BuildConfigBase.valid_build_images: the version part must match ^[\d\.]+$
valid_build_images ==
  {"stable", "latest", "testing"}
    \cup {ver \in Range(ImageVersions) : Len(ver) > 0
            /\ \A i \in 1..Len(ver) : IsDigit(CharAt(ver, i)) \/ CharAt(ver, i) = "."}

\* BuildConfigBase.get_valid_python_versions_for_image
get_valid_python_versions_for_image(build_image) ==
  IF build_image \notin ImageNames
  THEN SupportedVersions(DOCKER_DEFAULT_IMAGE \o ":" \o default_build_image)
  ELSE SupportedVersions(build_image)

(***************************************************************************)
(* Result of a validation stage: the error raised (NoErr when none), the   *)
(* raw mapping as the stage leaves it, and the section it returns.         *)
(*                                                                         *)
(* A stage is a chain of pops, each working on the mapping the previous    *)
(* one left.  The({e : p \in {pop_config(...)}}) names the result of one   *)
(* pop as p for the rest of the chain e.                                   *)
(***************************************************************************)
StageResult(error, raw, value) == [err |-> error, raw |-> raw, val |-> value]
Unset == [t |-> "unset", v |-> 0]
\* the stage raises InvalidConfig(key, code) and leaves the mapping as raw
Fail(key, code, raw) == StageResult(InvalidConfig(key, code), raw, Unset)
\* the only member of a set of one
The(S) == CHOOSE member \in S : TRUE

(***************************************************************************)
(* BuildConfigV2: formats, conda                                           *)
(***************************************************************************)
V2_validate_formats(raw) ==
  The({ IF EqStr(p.val, ALL) THEN StageResult(NoErr, p.c, StrList(valid_formats))
        ELSE IF validate_list(p.val) # "" THEN Fail("formats", INVALID_LIST, p.c)
        ELSE IF \E i \in 1..Len(p.val.v) :
                   validate_choice(p.val.v[i], Range(valid_formats)) # ""
        THEN Fail("formats", INVALID_CHOICE, p.c)
        ELSE StageResult(NoErr, p.c, p.val)
        : p \in {pop_config(raw, "formats", EmptyList, FALSE)} })

V2_validate_conda(raw) ==
  IF GetOr(raw, "conda", Null).t = "null" THEN StageResult(NoErr, raw, Null)
  ELSE IF validate_dict(Get(raw, "conda")) # "" THEN Fail("conda", INVALID_DICT, raw)
  ELSE The({ IF p.code # "" THEN Fail("conda.environment", p.code, p.c)
             ELSE IF validate_path(p.val) # ""
             THEN Fail("conda.environment", validate_path(p.val), p.c)
             ELSE StageResult(NoErr, p.c, Dict(<<KV("environment", p.val)>>))
             : p \in {pop_config(raw, "conda.environment", Null, TRUE)} })

(***************************************************************************)
(* BuildConfigV2: apt packages                                             *)
(***************************************************************************)
\* a character of [a-zA-Z0-9]
IsAlnum(c) ==
  \/ IsDigit(c)
  \/ c \in {"a", "b", "c", "d", "e", "f", "g", "h", "i", "j", "k", "l", "m",
            "n", "o", "p", "q", "r", "s", "t", "u", "v", "w", "x", "y", "z"}
  \/ c \in {"A", "B", "C", "D", "E", "F", "G", "H", "I", "J", "K", "L", "M",
            "N", "O", "P", "Q", "R", "S", "T", "U", "V", "W", "X", "Y", "Z"}

\* AptPatternMatch with the pattern ^[a-zA-Z0-9.+-]*$, the first character class left out
AptPatternMatch_without_first(package) ==
  \A i \in 1..Len(package) :
    IsAlnum(CharAt(package, i)) \/ CharAt(package, i) \in {".", "+", "-"}

\* re.compile(r'^[a-zA-Z0-9][a-zA-Z0-9.+-]*$').match(package)
AptPatternMatch(package) ==
  /\ Len(package) >= 1
  /\ IsAlnum(CharAt(package, 1))
  /\ \A i \in 2..Len(package) :
       IsAlnum(CharAt(package, i)) \/ CharAt(package, i) \in {".", "+", "-"}

invalid_starts == <<"-", "/", ".">>

\* the checks of validate_apt_package on the stripped name, "" when it passes
AptNameCode(package) ==
  IF \E i \in 1..Len(invalid_starts) : StartsWith(package, invalid_starts[i])
  THEN INVALID_NAME
  ELSE IF ~AptPatternMatch(package) THEN INVALID_NAME
  ELSE ""

V2_validate_apt_package(raw, index) ==
  The({ IF p.val.t # "str"
        THEN Fail("build.apt_packages." \o NatToStr(index), INVALID_STRING, p.c)
        ELSE The({ IF AptNameCode(package) # ""
                   THEN Fail("build.apt_packages." \o NatToStr(index), AptNameCode(package), p.c)
                   ELSE StageResult(NoErr, p.c, Str(package))
                   : package \in {Strip(p.val.v)} })
        : p \in {pop_config(raw, "build.apt_packages." \o NatToStr(index), Null, FALSE)} })

\* the list comprehension over range(len(raw_packages))
RECURSIVE V2_apt_loop(_, _, _, _)
V2_apt_loop(raw, index, count, done) ==
  IF index >= count THEN StageResult(NoErr, raw, List(done))
  ELSE The({ IF IsErr(r.err) THEN r
             ELSE V2_apt_loop(r.raw, index + 1, count, Append(done, r.val))
             : r \in {V2_validate_apt_package(raw, index)} })

V2_validate_apt_packages(raw) ==
  The({ IF validate_list(raw_packages) # ""
        THEN Fail("build.apt_packages", INVALID_LIST, raw)
        ELSE The({ IF IsErr(r.err) THEN r
                   ELSE IF ~Truthy(raw_packages)
                   THEN StageResult(NoErr,
                                    pop_config(r.raw, "build.apt_packages", Null, FALSE).c,
                                    r.val)
                   ELSE r
                   : r \in {V2_apt_loop(DictSet(raw, "build",
                                                DictSet(GetOr(raw, "build", EmptyDict), "apt_packages",
                                                        list_to_dict(raw_packages.v))),
                                        0, Len(raw_packages.v), <<>>)} })
        : raw_packages \in {GetOr(GetOr(raw, "build", EmptyDict), "apt_packages", EmptyList)} })

(***************************************************************************)
(* BuildConfigV2: build                                                    *)
(***************************************************************************)
\* validate_string over validate_list(job_commands), "" when all pass
JobCommandsCode(job_commands) ==
  IF validate_list(job_commands) # "" THEN INVALID_LIST
  ELSE IF ~AllStrings(job_commands.v) THEN INVALID_STRING
  ELSE ""

\* the checks on build.tools before the versions are looked at, "" when they pass
ToolsCode(tools) ==
  IF ~Truthy(tools) THEN ""
  ELSE IF validate_dict(tools) # "" THEN INVALID_DICT
  ELSE IF \E i \in 1..Len(tools.v) : tools.v[i].k \notin {"python", "nodejs", "rust", "golang"} THEN INVALID_CHOICE
  ELSE ""

\* the checks on build.jobs before the commands are looked at, "" when they pass
JobsCode(jobs) ==
  IF validate_dict(jobs) # "" THEN INVALID_DICT
  ELSE IF \E i \in 1..Len(jobs.v) : jobs.v[i].k \notin Range(BuildJobNames) THEN INVALID_CHOICE
  ELSE ""

\* index of the first job whose commands fail, 0 when none
FirstBadJob(jobs) ==
  IF \E i \in 1..Len(jobs.v) : JobCommandsCode(jobs.v[i].val) # ""
  THEN CHOOSE i \in 1..Len(jobs.v) :
         /\ JobCommandsCode(jobs.v[i].val) # ""
         /\ \A j \in 1..(i - 1) : JobCommandsCode(jobs.v[j].val) = ""
  ELSE 0

\* index of the first tool whose version is not in the catalog, 0 when none
FirstBadTool(tools) ==
  IF \A i \in 1..Len(tools.v) :
       validate_choice(tools.v[i].val, DOMAIN ToolVersions(tools.v[i].k)) = ""
  THEN 0
  ELSE CHOOSE i \in 1..Len(tools.v) :
         /\ validate_choice(tools.v[i].val, DOMAIN ToolVersions(tools.v[i].k)) # ""
         /\ \A j \in 1..(i - 1) :
              validate_choice(tools.v[j].val, DOMAIN ToolVersions(tools.v[j].k)) = ""

\* BuildKeysError with tools required whatever the commands
BuildKeysError_tools_only(tools, jobs, commands) ==
  IF ~Truthy(tools)
  THEN InvalidConfig("build.tools", CONFIG_REQUIRED)
  ELSE IF Truthy(commands) /\ Truthy(jobs)
  THEN InvalidConfig("build.commands", INVALID_KEYS_COMBINATION)
  ELSE NoErr

\* BuildKeysError with commands and jobs allowed together
BuildKeysError_without_combination(tools, jobs, commands) ==
  IF ~(Truthy(tools) \/ Truthy(commands))
  THEN InvalidConfig("build.tools", CONFIG_REQUIRED)
  ELSE NoErr

\* the two checks on how tools, jobs and commands combine, NoErr when they pass
BuildKeysError(tools, jobs, commands) ==
  IF ~(Truthy(tools) \/ Truthy(commands))
  THEN InvalidConfig("build.tools", CONFIG_REQUIRED)
  ELSE IF Truthy(commands) /\ Truthy(jobs)
  THEN InvalidConfig("build.commands", INVALID_KEYS_COMBINATION)
  ELSE NoErr

\* validate_build_config_with_os once os, tools, jobs and commands are popped
V2_build_with_os_checks(os, tools, jobs, commands, raw) ==
  IF IsErr(BuildKeysError(tools, jobs, commands))
  THEN StageResult(BuildKeysError(tools, jobs, commands), raw, Unset)
  ELSE IF FirstBadJob(jobs) # 0
  THEN Fail("build.jobs." \o jobs.v[FirstBadJob(jobs)].k,
            JobCommandsCode(jobs.v[FirstBadJob(jobs)].val), raw)
  ELSE IF ~AllStrings(commands.v) THEN Fail("build.commands", INVALID_STRING, raw)
  ELSE IF Truthy(tools) /\ FirstBadTool(tools) # 0
  THEN Fail("build.tools." \o tools.v[FirstBadTool(tools)].k, INVALID_CHOICE, raw)
  ELSE The({ IF IsErr(apt.err) THEN apt
             ELSE StageResult(NoErr, apt.raw,
                              Dict(<<KV("os", os),
                                     KV("jobs", jobs),
                                     KV("commands", commands),
                                     KV("tools", IF Truthy(tools) THEN tools ELSE EmptyDict),
                                     KV("apt_packages", apt.val)>>))
             : apt \in {V2_validate_apt_packages(raw)} })

V2_validate_build_config_with_os(raw) ==
  The({ IF p_os.code # "" THEN Fail("build.os", p_os.code, p_os.c)
        ELSE IF validate_choice(p_os.val, {"ubuntu-20.04", "ubuntu-22.04"}) # ""
        THEN Fail("build.os", INVALID_CHOICE, p_os.c)
        ELSE
  The({ IF ToolsCode(p_tools.val) # "" THEN Fail("build.tools", ToolsCode(p_tools.val), p_tools.c)
        ELSE
  The({ IF JobsCode(p_jobs.val) # "" THEN Fail("build.jobs", JobsCode(p_jobs.val), p_jobs.c)
        ELSE
  The({ IF validate_list(p_commands.val) # ""
        THEN Fail("build.commands", INVALID_LIST, p_commands.c)
        ELSE V2_build_with_os_checks(p_os.val, p_tools.val, p_jobs.val, p_commands.val,
                                     p_commands.c)
        : p_commands \in {pop_config(p_jobs.c, "build.commands", EmptyList, FALSE)} })
        : p_jobs \in {pop_config(p_tools.c, "build.jobs", EmptyDict, FALSE)} })
        : p_tools \in {pop_config(p_os.c, "build.tools", Null, FALSE)} })
        : p_os \in {pop_config(raw, "build.os", Null, TRUE)} })

\* the image of the legacy build, the per-project override left aside
LegacyImage_without_override(image, defaults) ==
  Str(DOCKER_DEFAULT_IMAGE \o ":" \o image.v)
\* the image of the legacy build: the per-project override wins
LegacyImage(image, defaults) ==
  IF Truthy(GetOr(defaults, "build_image", Null)) THEN Get(defaults, "build_image")
  ELSE Str(DOCKER_DEFAULT_IMAGE \o ":" \o image.v)

V2_validate_old_build_config(raw, defaults) ==
  The({ IF validate_choice(p.val, valid_build_images) # ""
        THEN Fail("build.image", INVALID_CHOICE, p.c)
        ELSE The({ IF IsErr(apt.err) THEN apt
                   ELSE StageResult(NoErr, apt.raw,
                                    Dict(<<KV("image", LegacyImage(p.val, defaults)),
                                           KV("apt_packages", apt.val)>>))
                   : apt \in {V2_validate_apt_packages(p.c)} })
        : p \in {pop_config(raw, "build.image", Str(default_build_image), FALSE)} })

\* validate_build taking the modern path for a build section with an os only
V2_validate_build_os_only(raw, defaults) ==
  IF validate_dict(GetOr(raw, "build", EmptyDict)) # "" THEN Fail("build", INVALID_DICT, raw)
  ELSE IF HasKey(GetOr(raw, "build", EmptyDict), "os")
  THEN V2_validate_build_config_with_os(raw)
  ELSE V2_validate_old_build_config(raw, defaults)

V2_validate_build(raw, defaults) ==
  IF validate_dict(GetOr(raw, "build", EmptyDict)) # "" THEN Fail("build", INVALID_DICT, raw)
  ELSE IF \/ HasKey(GetOr(raw, "build", EmptyDict), "os")
          \/ HasKey(GetOr(raw, "build", EmptyDict), "commands")
          \/ HasKey(GetOr(raw, "build", EmptyDict), "tools")
  THEN V2_validate_build_config_with_os(raw)
  ELSE V2_validate_old_build_config(raw, defaults)

\* BuildConfigBase.using_build_tools: the build property is a BuildWithOs
\* exactly when the validated build section has an 'os'
using_build_tools(build) == HasKey(build, "os")

(***************************************************************************)
(* BuildConfigV2: python                                                   *)
(***************************************************************************)
\* str(value); a list or a mapping prints as text that is no legal choice
PyStr(x) ==
  CASE x.t = "str" -> x.v
    [] x.t = "int" -> IF x.v < 0 THEN "-" \o NatToStr(0 - x.v) ELSE NatToStr(x.v)
    [] x.t = "float" -> NatToStr(x.v \div 10) \o "." \o NatToStr(x.v % 10)
    [] x.t = "bool" -> IF x.v THEN "True" ELSE "False"
    [] x.t = "null" -> "None"
    [] x.t = "list" -> "[...]"
    [] x.t = "dict" -> "{...}"

\* BuildConfigV2.get_valid_python_versions: those of the resolved build image
V2_get_valid_python_versions(build) ==
  get_valid_python_versions_for_image(PyStr(Get(build, "image")))

\* the 'path' branch of validate_python_install, key being python.install.<index>
V2_install_path(raw, key) ==
  The({ IF validate_path(p_path.val) # ""
        THEN Fail(key \o ".path", validate_path(p_path.val), p_path.c)
        ELSE
  The({ IF validate_choice(p_method.val, valid_install_method) # ""
        THEN Fail(key \o ".method", INVALID_CHOICE, p_method.c)
        ELSE
  The({ IF validate_list(p_extra.val) # ""
        THEN Fail(key \o ".extra_requirements", INVALID_LIST, p_extra.c)
        ELSE IF Truthy(p_extra.val) /\ p_method.val.v # PIP
        THEN Fail(key \o ".extra_requirements", PYTHON_INVALID, p_extra.c)
        ELSE StageResult(NoErr, p_extra.c,
                         Dict(<<KV("path", p_path.val),
                                KV("method", p_method.val),
                                KV("extra_requirements", p_extra.val)>>))
        : p_extra \in {pop_config(p_method.c, key \o ".extra_requirements",
                                  EmptyList, FALSE)} })
        : p_method \in {pop_config(p_path.c, key \o ".method", Str(PIP), FALSE)} })
        : p_path \in {pop_config(raw, key \o ".path", Null, FALSE)} })

V2_validate_python_install(raw, index) ==
  The({ IF validate_dict(raw_install) # ""
        THEN Fail("python.install." \o NatToStr(index), INVALID_DICT, raw)
        ELSE IF HasKey(raw_install, "requirements")
        THEN The({ IF validate_path(p.val) # ""
                   THEN Fail("python.install." \o NatToStr(index) \o ".requirements",
                             validate_path(p.val), p.c)
                   ELSE StageResult(NoErr, p.c, Dict(<<KV("requirements", p.val)>>))
                   : p \in {pop_config(raw,
                                       "python.install." \o NatToStr(index) \o ".requirements",
                                       Null, FALSE)} })
        ELSE IF HasKey(raw_install, "path")
        THEN V2_install_path(raw, "python.install." \o NatToStr(index))
        ELSE Fail("python.install." \o NatToStr(index), CONFIG_REQUIRED, raw)
        : raw_install \in {Get(Get(Get(raw, "python"), "install"), NatToStr(index))} })

\* the install loop with each validated entry put in front of the earlier ones
RECURSIVE V2_install_loop_reversed(_, _, _, _)
V2_install_loop_reversed(raw, index, count, done) ==
  IF index >= count THEN StageResult(NoErr, raw, List(done))
  ELSE The({ IF IsErr(r.err) THEN r
             ELSE V2_install_loop_reversed(r.raw, index + 1, count, <<r.val>> \o done)
             : r \in {V2_validate_python_install(raw, index)} })

\* the list comprehension over range(len(raw_install))
RECURSIVE V2_install_loop(_, _, _, _)
V2_install_loop(raw, index, count, done) ==
  IF index >= count THEN StageResult(NoErr, raw, List(done))
  ELSE The({ IF IsErr(r.err) THEN r
             ELSE V2_install_loop(r.raw, index + 1, count, Append(done, r.val))
             : r \in {V2_validate_python_install(raw, index)} })

\* bool(value) of a value that passed validate_bool
PyBool(x) == IF x.t = "bool" THEN x ELSE Bool(x.v # 0)

\* validate_python from python.install on; python holds the entries set so far
V2_python_install(raw, python) ==
  The({ IF validate_list(raw_install) # "" THEN Fail("python.install", INVALID_LIST, raw)
        ELSE
  The({ IF IsErr(installs.err) THEN installs
        ELSE
  The({ IF validate_bool(p_system.val) # ""
        THEN Fail("python.system_packages", INVALID_BOOL, p_system.c)
        ELSE StageResult(NoErr, p_system.c,
                         Dict(python \o <<KV("install", installs.val),
                                          KV("use_system_site_packages",
                                             PyBool(p_system.val))>>))
        : p_system \in {pop_config(installs.raw, "python.system_packages",
                                   Bool(FALSE), FALSE)} })
        : installs \in {IF Truthy(raw_install)
                        THEN V2_install_loop(
                               DictSet(raw, "python",
                                       DictSet(GetOr(raw, "python", EmptyDict), "install",
                                               list_to_dict(raw_install.v))),
                               0, Len(raw_install.v), <<>>)
                        ELSE StageResult(NoErr,
                                         pop_config(raw, "python.install", Null, FALSE).c,
                                         EmptyList)} })
        : raw_install \in {GetOr(GetOr(raw, "python", EmptyDict), "install", EmptyList)} })

\* python.version read as str(version), 3.1 included
PyVersion_uncorrected(x) == PyStr(x)
\* python.version as validate_python reads it: 3.1 stands for '3.10'
PyVersion(x) == IF x.t = "float" /\ x.v = 31 THEN "3.10" ELSE PyStr(x)

V2_validate_python(raw, build) ==
  IF validate_dict(GetOr(raw, "python", EmptyDict)) # ""
  THEN Fail("python", INVALID_DICT, raw)
  ELSE IF using_build_tools(build) THEN V2_python_install(raw, <<>>)
  ELSE The({ IF validate_choice(Str(PyVersion(p.val)),
                                StrMembers(Range(V2_get_valid_python_versions(build)))) # ""
             THEN Fail("python.version", INVALID_CHOICE, p.c)
             ELSE V2_python_install(p.c, <<KV("version", Str(PyVersion(p.val)))>>)
             : p \in {pop_config(raw, "python.version", Str("3"), FALSE)} })

(***************************************************************************)
(* BuildConfigV2: doc types, mkdocs, sphinx                                *)
(***************************************************************************)
\* validate_doc_types letting sphinx and mkdocs through together
V2_validate_doc_types_allowing_both(raw) == StageResult(NoErr, raw, Unset)
V2_validate_doc_types(raw) ==
  IF HasKey(raw, "sphinx") /\ HasKey(raw, "mkdocs")
  THEN Fail(".", INVALID_KEYS_COMBINATION, raw)
  ELSE StageResult(NoErr, raw, Unset)

\* validate_path of a configuration file that may be None, "" when it passes
OptPathCode(x) == IF x.t = "null" THEN "" ELSE validate_path(x)

V2_validate_mkdocs(raw) ==
  IF GetOr(raw, "mkdocs", Null).t = "null" THEN StageResult(NoErr, raw, Null)
  ELSE IF validate_dict(Get(raw, "mkdocs")) # "" THEN Fail("mkdocs", INVALID_DICT, raw)
  ELSE
  The({ IF OptPathCode(p_conf.val) # ""
        THEN Fail("mkdocs.configuration", OptPathCode(p_conf.val), p_conf.c)
        ELSE
  The({ IF validate_bool(p_fail.val) # ""
        THEN Fail("mkdocs.fail_on_warning", INVALID_BOOL, p_fail.c)
        ELSE StageResult(NoErr, p_fail.c,
                         Dict(<<KV("configuration", p_conf.val),
                                KV("fail_on_warning", PyBool(p_fail.val))>>))
        : p_fail \in {pop_config(p_conf.c, "mkdocs.fail_on_warning", Bool(FALSE), FALSE)} })
        : p_conf \in {pop_config(raw, "mkdocs.configuration", Null, FALSE)} })

\* the mkdocs property: None unless the validated section is non-empty
V2_mkdocs(config) == IF Truthy(config.mkdocs) THEN config.mkdocs ELSE Null

V2_validate_sphinx(raw, config, defaults) ==
  IF GetOr(raw, "sphinx", Null).t = "null" /\ V2_mkdocs(config).t # "null"
  THEN StageResult(NoErr, raw, Null)
  ELSE IF GetOr(raw, "sphinx", Null).t \notin {"null", "dict"}
  THEN Fail("sphinx", INVALID_DICT, raw)
  ELSE
  \* 'sphinx: null' is still in the raw mapping, and pop refuses to descend into it
  The({ IF p_builder.code # "" THEN Fail("sphinx.builder", p_builder.code, p_builder.c)
        ELSE IF validate_choice(p_builder.val, DOMAIN valid_sphinx_builders) # ""
        THEN Fail("sphinx.builder", INVALID_CHOICE, p_builder.c)
        ELSE
  The({ IF OptPathCode(p_conf.val) # ""
        THEN Fail("sphinx.configuration", OptPathCode(p_conf.val), p_conf.c)
        ELSE
  The({ IF validate_bool(p_fail.val) # ""
        THEN Fail("sphinx.fail_on_warning", INVALID_BOOL, p_fail.c)
        ELSE StageResult(NoErr, p_fail.c,
                         Dict(<<KV("builder", Str(valid_sphinx_builders[p_builder.val.v])),
                                KV("configuration", p_conf.val),
                                KV("fail_on_warning", PyBool(p_fail.val))>>))
        : p_fail \in {pop_config(p_conf.c, "sphinx.fail_on_warning", Bool(FALSE), FALSE)} })
        : p_conf \in {pop_config(p_builder.c, "sphinx.configuration",
                                 IF Truthy(GetOr(defaults, "sphinx_configuration", Null))
                                 THEN Get(defaults, "sphinx_configuration")
                                 ELSE Null,
                                 FALSE)} })
        : p_builder \in {pop_config(raw, "sphinx.builder", Str("html"), FALSE)} })

(***************************************************************************)
(* BuildConfigV2: submodules, search                                       *)
(***************************************************************************)
\* SubmoduleListCode without the ALL keyword
SubmoduleListCode_without_all(x) ==
  IF validate_list(x) # "" THEN INVALID_LIST
  ELSE IF ~AllStrings(x.v) THEN INVALID_STRING
  ELSE ""

\* [validate_string(x) for x in validate_list(value)] unless value == ALL,
\* "" when it passes
SubmoduleListCode(x) ==
  IF EqStr(x, ALL) THEN ""
  ELSE IF validate_list(x) # "" THEN INVALID_LIST
  ELSE IF ~AllStrings(x.v) THEN INVALID_STRING
  ELSE ""

V2_validate_submodules(raw) ==
  IF validate_dict(GetOr(raw, "submodules", EmptyDict)) # ""
  THEN Fail("submodules", INVALID_DICT, raw)
  ELSE
  The({ IF SubmoduleListCode(p_inc.val) # ""
        THEN Fail("submodules.include", SubmoduleListCode(p_inc.val), p_inc.c)
        ELSE
  The({ IF SubmoduleListCode(p_exc.val) # ""
        THEN Fail("submodules.exclude", SubmoduleListCode(p_exc.val), p_exc.c)
        ELSE IF Truthy(p_inc.val) /\ (EqStr(p_exc.val, ALL) \/ Truthy(p_exc.val))
        THEN Fail("submodules", SUBMODULES_INVALID, p_exc.c)
        ELSE
  The({ IF validate_bool(p_rec.val) # ""
        THEN Fail("submodules.recursive", INVALID_BOOL, p_rec.c)
        ELSE StageResult(NoErr, p_rec.c,
                         Dict(<<KV("include", p_inc.val),
                                KV("exclude", p_exc.val),
                                KV("recursive", PyBool(p_rec.val))>>))
        : p_rec \in {pop_config(p_exc.c, "submodules.recursive", Bool(FALSE), FALSE)} })
        : p_exc \in {pop_config(p_inc.c, "submodules.exclude",
                                IF Truthy(p_inc.val) THEN EmptyList ELSE Str(ALL),
                                FALSE)} })
        : p_inc \in {pop_config(raw, "submodules.include", EmptyList, FALSE)} })

\* a glob pattern: a string that does not point outside the project
validate_path_pattern(x) ==
  IF x.t # "str" THEN INVALID_STRING
  ELSE IF x.v = "" \/ StartsWith(x.v, "..") THEN "invalid-path"
  ELSE ""

\* the checks on one entry of search.ranking, "" when they pass: the pattern,
\* then rank in list(range(-10, 10 + 1)), where True, False and whole floats
\* compare equal to integers
RankingEntryCode(entry) ==
  IF validate_path_pattern(Str(entry.k)) # "" THEN validate_path_pattern(Str(entry.k))
  ELSE IF \/ entry.val.t = "int" /\ entry.val.v \in -10..10
          \/ entry.val.t = "bool"
          \/ entry.val.t = "float" /\ entry.val.v % 10 = 0 /\ entry.val.v \div 10 \in -10..10
  THEN ""
  ELSE INVALID_CHOICE

\* the checks on search.ranking: the code of the first entry that fails
RankingCode(ranking) ==
  IF validate_dict(ranking) # "" THEN INVALID_DICT
  ELSE IF \A i \in 1..Len(ranking.v) : RankingEntryCode(ranking.v[i]) = "" THEN ""
  ELSE RankingEntryCode(ranking.v[CHOOSE i \in 1..Len(ranking.v) :
                                    /\ RankingEntryCode(ranking.v[i]) # ""
                                    /\ \A j \in 1..(i - 1) :
                                         RankingEntryCode(ranking.v[j]) = ""])

\* the checks on search.ignore: the code of the first pattern that fails
IgnoreCode(ignore) ==
  IF validate_list(ignore) # "" THEN INVALID_LIST
  ELSE IF \A i \in 1..Len(ignore.v) : validate_path_pattern(ignore.v[i]) = "" THEN ""
  ELSE validate_path_pattern(ignore.v[CHOOSE i \in 1..Len(ignore.v) :
                                        /\ validate_path_pattern(ignore.v[i]) # ""
                                        /\ \A j \in 1..(i - 1) :
                                             validate_path_pattern(ignore.v[j]) = ""])

\* ignore_default with the index pages left out
ignore_default_without_index == <<"search.html", "404.html">>
ignore_default == <<"search.html", "search/index.html", "404.html", "404/index.html">>

V2_validate_search(raw) ==
  IF validate_dict(GetOr(raw, "search", EmptyDict)) # ""
  THEN Fail("search", INVALID_DICT, raw)
  ELSE
  The({ IF RankingCode(p_rank.val) # ""
        THEN Fail("search.ranking", RankingCode(p_rank.val), p_rank.c)
        ELSE
  The({ IF IgnoreCode(p_ign.val) # ""
        THEN Fail("search.ignore", IgnoreCode(p_ign.val), p_ign.c)
        ELSE StageResult(NoErr, p_ign.c,
                         Dict(<<KV("ranking", p_rank.val), KV("ignore", p_ign.val)>>))
        : p_ign \in {pop_config(p_rank.c, "search.ignore", StrList(ignore_default), FALSE)} })
        : p_rank \in {pop_config(raw, "search.ranking", EmptyDict, FALSE)} })

(***************************************************************************)
(* BuildConfigV2: the unknown-key sweep                                    *)
(***************************************************************************)
RECURSIVE V2_get_extra_key(_)
V2_get_extra_key(value) ==
  IF value.t = "dict" /\ Truthy(value)
  THEN <<value.v[1].k>> \o V2_get_extra_key(value.v[1].val)
  ELSE <<>>

V2_validate_keys(raw) ==
  The({ IF Join(V2_get_extra_key(p.c)) # ""
        THEN Fail(Join(V2_get_extra_key(p.c)), INVALID_KEY, p.c)
        ELSE StageResult(NoErr, p.c, Unset)
        : p \in {pop_config(raw, "version", Null, FALSE)} })

(***************************************************************************)
(* BuildConfigV2: the public properties, read from _config                 *)
(***************************************************************************)
\* BuildJobs(**jobs): a job that is not given has no commands
BuildJobs(jobs) ==
  Dict([i \in 1..Len(BuildJobNames) |->
          KV(BuildJobNames[i], GetOr(jobs, BuildJobNames[i], EmptyList))])

\* the build property: a BuildWithOs when the section has an 'os', else a Build
V2_build(config) ==
  IF HasKey(config.build, "os")
  THEN Dict(<<KV("os", Get(config.build, "os")),
              KV("tools",
                 Dict([i \in 1..Len(Get(config.build, "tools").v) |->
                         KV(Get(config.build, "tools").v[i].k,
                            Dict(<<KV("version", Get(config.build, "tools").v[i].val),
                                   KV("full_version",
                                      Str(ToolVersions(Get(config.build, "tools").v[i].k)
                                            [Get(config.build, "tools").v[i].val.v]))>>))])),
              KV("jobs", BuildJobs(Get(config.build, "jobs"))),
              KV("commands", Get(config.build, "commands")),
              KV("apt_packages", Get(config.build, "apt_packages"))>>)
  ELSE config.build

\* the python property; every validated install entry holds 'requirements' or 'path'
\* the python property with the version defaulted as on the legacy path
V2_python_version_defaulted(config) ==
  Dict(<<KV("version", GetOr(config.python, "version", Str("3"))),
         KV("install", Get(config.python, "install")),
         KV("use_system_site_packages", Get(config.python, "use_system_site_packages"))>>)
V2_python(config) ==
  Dict(<<KV("version", GetOr(config.python, "version", Null)),
         KV("install", Get(config.python, "install")),
         KV("use_system_site_packages", Get(config.python, "use_system_site_packages"))>>)

\* the sphinx property: None unless the validated section is non-empty
V2_sphinx(config) == IF Truthy(config.sphinx) THEN config.sphinx ELSE Null

\* the doctype property with mkdocs looked at before the build commands
V2_doctype_mkdocs_first(config) ==
  IF V2_mkdocs(config).t # "null" THEN "mkdocs"
  ELSE IF HasKey(config.build, "commands") /\ Truthy(Get(config.build, "commands"))
  THEN "generic"
  ELSE Get(V2_sphinx(config), "builder").v
\* the doctype property
V2_doctype(config) ==
  IF HasKey(config.build, "commands") /\ Truthy(Get(config.build, "commands")) THEN "generic"
  ELSE IF V2_mkdocs(config).t # "null" THEN "mkdocs"
  ELSE Get(V2_sphinx(config), "builder").v

(***************************************************************************)
(* BuildConfigV1                                                           *)
(***************************************************************************)
\* 'sub' in text
Contains(text, sub) ==
  \E i \in 1..(Len(text) - Len(sub) + 1) : SubSeq(text, i, i + Len(sub) - 1) = sub

\* DOCKER_IMAGE_SETTINGS[image] as a parsed mapping
ImageSettings(image) ==
  Dict(<<KV("python",
            Dict(<<KV("supported_versions", List(SupportedVersions(image))),
                   KV("default_version",
                      Dict(<<KV("2", Str("2.7")),
                             KV("3", Str(IF image = "readthedocs/build:2.0"
                                         THEN "3.5" ELSE "3.7"))>>))>>))>>)

\* dict.update(other): existing keys are replaced in place, new keys are appended
RECURSIVE DictUpdate(_, _)
DictUpdate(d, entries) ==
  IF entries = <<>> THEN d
  ELSE DictUpdate(DictSet(d, entries[1].k, entries[1].val), Tail(entries))

\* result of BuildConfigV1.validate_build: the stage result and env_config afterwards
V1_validate_build(raw, env_config, defaults) ==
  LET build0 == IF HasKey(env_config, "build") THEN Get(env_config, "build")
                ELSE Dict(<<KV("image", Str(DOCKER_DEFAULT_IMAGE \o ":" \o DOCKER_DEFAULT_VERSION))>>)
      given == HasKey(raw, "build")
      _build == GetOr(raw, "build", EmptyDict)
      has_image == CASE _build.t = "dict" -> HasKey(_build, "image")
                     [] _build.t = "str" -> Contains(_build.v, "image")
                     [] _build.t = "list" -> \E i \in 1..Len(_build.v) : EqStr(_build.v[i], "image")
                     [] OTHER -> FALSE
      user_image == Str(PyStr(Get(_build, "image")))
      e_image == validate_choice(user_image, valid_build_images)
      build1 == IF given /\ has_image THEN DictSet(build0, "image", user_image) ELSE build0
      image1 == PyStr(Get(build1, "image"))
      build2 == IF given /\ ~Contains(image1, ":")
                THEN DictSet(build1, "image", Str(DOCKER_DEFAULT_IMAGE \o ":" \o image1))
                ELSE build1
      image2 == PyStr(Get(build2, "image"))
      env2 == IF image2 \in ImageNames
              THEN DictUpdate(env_config, ImageSettings(image2).v)
              ELSE env_config
      config_image == GetOr(defaults, "build_image", Null)
      build3 == IF Truthy(config_image) THEN DictSet(build2, "image", config_image) ELSE build2
  IN IF given /\ _build.t \in {"null", "int", "float", "bool"}
     THEN [res |-> StageResult(Uncaught("TypeError"), raw, Unset), env |-> env_config]
     ELSE IF given /\ has_image /\ _build.t # "dict"
     THEN [res |-> StageResult(Uncaught("TypeError"), raw, Unset), env |-> env_config]
     ELSE IF given /\ has_image /\ e_image # ""
     THEN [res |-> StageResult(InvalidConfig("build", e_image), raw, Unset), env |-> env_config]
     ELSE [res |-> StageResult(NoErr, raw, build3), env |-> env2]

\* BuildConfigV1.get_valid_python_versions
V1_get_valid_python_versions(env_config) ==
  LET python == GetOr(env_config, "python", Null)
  IN IF python.t = "dict" /\ HasKey(python, "supported_versions")
     THEN Range(Get(python, "supported_versions").v)
     ELSE UNION {Range(SupportedVersions(image)) : image \in ImageNames}

\* the extra requirements with the list kept whatever pip_install says
V1_extra_requirements_kept(raw_extra_requirements, install_with_pip) ==
  raw_extra_requirements
\* python['extra_requirements'] once the list has been examined
V1_extra_requirements(raw_extra_requirements, install_with_pip) ==
  IF ~install_with_pip THEN EmptyList ELSE raw_extra_requirements

V1_validate_python(raw, env_config, defaults) ==
  LET raw_python == GetOr(raw, "python", EmptyDict)
      python0 == Dict(<<KV("use_system_site_packages",
                           GetOr(defaults, "use_system_packages", Bool(FALSE))),
                        KV("install_with_pip", Bool(FALSE)),
                        KV("extra_requirements", EmptyList),
                        KV("install_with_setup", GetOr(defaults, "install_project", Bool(FALSE))),
                        KV("version", GetOr(defaults, "python_version", Str("2")))>>)
      Field(name) == Get(raw_python, name)
      e_system == IF HasKey(raw_python, "use_system_site_packages")
                  THEN validate_bool(Field("use_system_site_packages")) ELSE ""
      e_pip == IF HasKey(raw_python, "pip_install")
               THEN validate_bool(Field("pip_install")) ELSE ""
      with_pip == IF HasKey(raw_python, "pip_install")
                  THEN PyBool(Field("pip_install")) ELSE Bool(FALSE)
      has_extra == HasKey(raw_python, "extra_requirements")
      extra == IF has_extra
               THEN V1_extra_requirements(Field("extra_requirements"), with_pip.v)
               ELSE EmptyList
      e_setup == IF HasKey(raw_python, "setup_py_install")
                 THEN validate_bool(Field("setup_py_install")) ELSE ""
      version == Str(PyStr(Field("version")))
      e_version == validate_choice(version, StrMembers(V1_get_valid_python_versions(env_config)))
      python1 == IF HasKey(raw_python, "use_system_site_packages")
                 THEN DictSet(python0, "use_system_site_packages",
                              PyBool(Field("use_system_site_packages")))
                 ELSE python0
      python2 == DictSet(DictSet(python1, "install_with_pip", with_pip),
                         "extra_requirements", extra)
      python3 == IF HasKey(raw_python, "setup_py_install")
                 THEN DictSet(python2, "install_with_setup", PyBool(Field("setup_py_install")))
                 ELSE python2
      python4 == IF HasKey(raw_python, "version")
                 THEN DictSet(python3, "version", version) ELSE python3
  IN IF ~HasKey(raw, "python") THEN StageResult(NoErr, raw, python0)
     ELSE IF raw_python.t # "dict" THEN Fail("python", PYTHON_INVALID, raw)
     ELSE IF e_system # "" THEN Fail("python.use_system_site_packages", e_system, raw)
     ELSE IF e_pip # "" THEN Fail("python.pip_install", e_pip, raw)
     ELSE IF has_extra /\ Field("extra_requirements").t # "list"
     THEN Fail("python.extra_requirements", PYTHON_INVALID, raw)
     ELSE IF has_extra /\ with_pip.v /\ ~AllStrings(extra.v)
     THEN Fail("python.extra_requirements", INVALID_STRING, raw)
     ELSE IF e_setup # "" THEN Fail("python.setup_py_install", e_setup, raw)
     ELSE IF HasKey(raw_python, "version") /\ e_version # ""
     THEN Fail("python.version", e_version, raw)
     ELSE StageResult(NoErr, raw, python4)

V1_validate_formats(raw, defaults) ==
  LET formats == GetOr(raw, "formats", Null)
  IN IF formats.t = "null"
     THEN StageResult(NoErr, raw, GetOr(defaults, "formats", EmptyList))
     ELSE IF formats = StrList(<<"none">>) THEN StageResult(NoErr, raw, EmptyList)
     ELSE IF validate_list(formats) # ""
     THEN StageResult(InvalidConfig("format", INVALID_LIST), raw, Unset)
     ELSE IF \E i \in 1..Len(formats.v) :
                validate_choice(formats.v[i], {"htmlzip", "pdf", "epub"}) # ""
     THEN StageResult(InvalidConfig("format", INVALID_CHOICE), raw, Unset)
     ELSE StageResult(NoErr, raw, formats)

V1_validate_conda(raw) ==
  LET raw_conda == Get(raw, "conda")
  IN IF ~HasKey(raw, "conda") THEN StageResult(NoErr, raw, Null)
     ELSE IF validate_dict(raw_conda) # ""
     THEN StageResult(InvalidConfig("conda", INVALID_DICT), raw, Unset)
     ELSE IF ~HasKey(raw_conda, "file")
     THEN StageResult(InvalidConfig("conda.file", VALUE_NOT_FOUND), raw, Unset)
     ELSE IF validate_path(Get(raw_conda, "file")) # ""
     THEN StageResult(InvalidConfig("conda.file", validate_path(Get(raw_conda, "file"))),
                      raw, Unset)
     ELSE StageResult(NoErr, raw, Dict(<<KV("environment", Get(raw_conda, "file"))>>))

V1_validate_requirements_file(raw, defaults) ==
  LET requirements_file == IF ~HasKey(raw, "requirements_file")
                           THEN GetOr(defaults, "requirements_file", Null)
                           ELSE Get(raw, "requirements_file")
  IN IF ~Truthy(requirements_file) THEN StageResult(NoErr, raw, Null)
     ELSE IF validate_path(requirements_file) # ""
     THEN StageResult(InvalidConfig("requirements_file", validate_path(requirements_file)),
                      raw, Unset)
     ELSE StageResult(NoErr, raw, requirements_file)

\* the python property with the setuptools step preferred to the pip step
V1_python_setup_first(config) ==
  Dict(<<KV("version", Get(config.python, "version")),
         KV("install",
            List(<<Dict(<<KV("requirements", config.requirements_file)>>)>>
                   \o (IF Truthy(Get(config.python, "install_with_setup"))
                       THEN <<Dict(<<KV("path", Str(".")), KV("method", Str(SETUPTOOLS)),
                                     KV("extra_requirements", EmptyList)>>)>>
                       ELSE IF Get(config.python, "install_with_pip").v
                       THEN <<Dict(<<KV("path", Str(".")), KV("method", Str(PIP)),
                                     KV("extra_requirements",
                                        Get(config.python, "extra_requirements"))>>)>>
                       ELSE <<>>))),
         KV("use_system_site_packages", Get(config.python, "use_system_site_packages"))>>)

\* the python property of BuildConfigV1: a requirements step first, then the
\* pip or the setuptools step of the project, at most one of them
V1_python(config) ==
  Dict(<<KV("version", Get(config.python, "version")),
         KV("install",
            List(<<Dict(<<KV("requirements", config.requirements_file)>>)>>
                   \o (IF Get(config.python, "install_with_pip").v
                       THEN <<Dict(<<KV("path", Str(".")), KV("method", Str(PIP)),
                                     KV("extra_requirements",
                                        Get(config.python, "extra_requirements"))>>)>>
                       ELSE IF Truthy(Get(config.python, "install_with_setup"))
                       THEN <<Dict(<<KV("path", Str(".")), KV("method", Str(SETUPTOOLS)),
                                     KV("extra_requirements", EmptyList)>>)>>
                       ELSE <<>>))),
         KV("use_system_site_packages", Get(config.python, "use_system_site_packages"))>>)

(***************************************************************************)
(* Reading an attribute of a validated config                              *)
(***************************************************************************)
\* BuildConfigBase.PUBLIC_ATTRIBUTES
PUBLIC_ATTRIBUTES ==
  <<"version", "formats", "python", "conda", "build", "doctype", "sphinx", "mkdocs",
    "submodules", "search">>

\* the attribute read returns value
Returned(value) == [err |-> NoErr, val |-> value]
\* BuildConfigBase.__getattr__: reached when the normal lookup finds nothing
getattr_fallback(name) ==
  [err |-> [kind |-> "ConfigOptionNotSupportedError", code |-> CONFIG_NOT_SUPPORTED,
           key |-> name],
   val |-> Unset]

\* getattr on a V1 config whose submodules and search come from validated sections
V1_getattr_from_sections(sections, defaults, name) ==
  CASE name = "submodules" -> Returned(sections.submodules)
    [] name = "search" -> Returned(sections.search)
    [] OTHER -> getattr_fallback(name)
\* getattr(config, name) on a validated BuildConfigV1
V1_getattr(sections, defaults, name) ==
  CASE name = "version" -> Returned(Str("1"))
    [] name = "formats" -> Returned(sections.formats)
    [] name = "python" -> Returned(V1_python(sections))
    [] name = "conda" -> Returned(sections.conda)
    [] name = "build" -> Returned(sections.build)
    [] name = "doctype" ->
         IF HasKey(defaults, "doctype") THEN Returned(Get(defaults, "doctype"))
         ELSE [err |-> Uncaught("KeyError"), val |-> Unset]
    [] name = "sphinx" ->
         IF ~HasKey(defaults, "sphinx_configuration") \/ ~HasKey(defaults, "doctype")
         THEN [err |-> Uncaught("KeyError"), val |-> Unset]
         ELSE Returned(Dict(<<KV("builder", Get(defaults, "doctype")),
                              KV("configuration", Get(defaults, "sphinx_configuration")),
                              KV("fail_on_warning", Bool(FALSE))>>))
    [] name = "mkdocs" ->
         Returned(Dict(<<KV("configuration", Null), KV("fail_on_warning", Bool(FALSE))>>))
    [] name = "submodules" ->
         Returned(Dict(<<KV("include", Str(ALL)), KV("exclude", EmptyList),
                         KV("recursive", Bool(TRUE))>>))
    [] name = "search" ->
         Returned(Dict(<<KV("ranking", EmptyDict), KV("ignore", EmptyList)>>))
    [] OTHER -> getattr_fallback(name)

\* getattr(config, name) on a validated BuildConfigV2
V2_getattr(sections, name) ==
  CASE name = "version" -> Returned(Str("2"))
    [] name = "formats" -> Returned(sections.formats)
    [] name = "python" -> Returned(V2_python(sections))
    [] name = "conda" ->
         Returned(IF Truthy(sections.conda) THEN sections.conda ELSE Null)
    [] name = "build" -> Returned(V2_build(sections))
    [] name = "doctype" ->
         \* self.sphinx.builder on None is an AttributeError, which falls to __getattr__
         IF /\ ~(HasKey(sections.build, "commands")
                  /\ Truthy(Get(sections.build, "commands")))
            /\ V2_mkdocs(sections).t = "null"
            /\ V2_sphinx(sections).t = "null"
         THEN getattr_fallback(name)
         ELSE Returned(Str(V2_doctype(sections)))
    [] name = "sphinx" -> Returned(V2_sphinx(sections))
    [] name = "mkdocs" -> Returned(V2_mkdocs(sections))
    [] name = "submodules" -> Returned(sections.submodules)
    [] name = "search" -> Returned(sections.search)
    [] OTHER -> getattr_fallback(name)

(***************************************************************************)
(* load(): file discovery, parsing, version dispatch                       *)
(***************************************************************************)
\* r'^\.?readthedocs.ya?ml$'
CONFIG_FILENAME_REGEX == "^\\.?readthedocs.ya?ml$"

\* re.match of the pattern from its character i on against the name from its
\* character j on.  The pattern is read as the re module reads it: ^ is the
\* start of the name, $ its end or the place before a line break that ends
\* it, \c the character c, . every character but a line break, any other
\* character itself, and an item followed by ? may be left out.
RECURSIVE MatchFrom(_, _, _, _)
MatchFrom(pattern, name, i, j) ==
  IF i > Len(pattern) THEN TRUE
  ELSE IF CharAt(pattern, i) = "^" THEN j = 1 /\ MatchFrom(pattern, name, i + 1, j)
  ELSE IF CharAt(pattern, i) = "$"
  THEN /\ j > Len(name) \/ (j = Len(name) /\ CharAt(name, j) = "\n")
       /\ MatchFrom(pattern, name, i + 1, j)
  ELSE LET width == IF CharAt(pattern, i) = "\\" THEN 2 ELSE 1
           optional == CharAt(pattern, i + width) = "?"
           next == i + width + (IF optional THEN 1 ELSE 0)
           hit == /\ j <= Len(name)
                  /\ IF width = 2 THEN CharAt(name, j) = CharAt(pattern, i + 1)
                     ELSE IF CharAt(pattern, i) = "." THEN CharAt(name, j) # "\n"
                     ELSE CharAt(name, j) = CharAt(pattern, i)
       IN \/ hit /\ MatchFrom(pattern, name, next, j + 1)
          \/ optional /\ MatchFrom(pattern, name, next, j)

ReMatch(pattern, name) == MatchFrom(pattern, name, 1, 1)

\* find_one(path, filename_regex): the first matching entry of the directory, "" when none
find_one(entries, filename_regex) ==
  IF \A i \in 1..Len(entries) : ~ReMatch(filename_regex, entries[i]) THEN ""
  ELSE entries[CHOOSE i \in 1..Len(entries) :
                 /\ ReMatch(filename_regex, entries[i])
                 /\ \A j \in 1..(i - 1) : ~ReMatch(filename_regex, entries[j])]

\* the value of a string of digits, acc being the value of the digits read so far
RECURSIVE DigitsValue(_, _)
DigitsValue(s, acc) ==
  IF Len(s) = 0 THEN acc
  ELSE DigitsValue(SubSeq(s, 2, Len(s)), 10 * acc + ((CHOOSE i \in 1..10 : Digits[i] = CharAt(s, 1)) - 1))

\* int(value): [exc |-> "" or the exception raised, n |-> the integer]; for a text,
\* optional surrounding blanks, an optional sign, then digits only
PyInt(x) ==
  LET text == Strip(x.v)
      signed == Len(text) > 0 /\ CharAt(text, 1) \in {"+", "-"}
      digits == IF signed THEN SubSeq(text, 2, Len(text)) ELSE text
      sign == IF signed /\ CharAt(text, 1) = "-" THEN -1 ELSE 1
  IN CASE x.t = "int" -> [exc |-> "", n |-> x.v]
       [] x.t = "bool" -> [exc |-> "", n |-> IF x.v THEN 1 ELSE 0]
       [] x.t = "float" -> [exc |-> "", n |-> x.v \div 10]
       [] x.t = "str" -> IF /\ Len(digits) > 0
                            /\ \A i \in 1..Len(digits) : IsDigit(CharAt(digits, i))
                         THEN [exc |-> "", n |-> sign * DigitsValue(digits, 0)]
                         ELSE [exc |-> "ValueError", n |-> 0]
       [] OTHER -> [exc |-> "TypeError", n |-> 0]

\* get_configuration_class(version): the class name and the error raised
get_configuration_class(version) ==
  LET converted == PyInt(version)
  IN IF converted.exc = "ValueError"
     THEN [cls |-> "none", err |-> InvalidConfig("version", VERSION_INVALID)]
     ELSE IF converted.exc # ""
     THEN [cls |-> "none", err |-> Uncaught(converted.exc)]
     ELSE IF converted.n = 1 THEN [cls |-> "V1", err |-> NoErr]
     ELSE IF converted.n = 2 THEN [cls |-> "V2", err |-> NoErr]
     ELSE [cls |-> "none", err |-> InvalidConfig("version", VERSION_INVALID)]

(***************************************************************************)
(* Input documents                                                         *)
(***************************************************************************)
Python311 == Dict(<<KV("python", Str("3.11"))>>)
ModernBuild == Dict(<<KV("os", Str("ubuntu-22.04")), KV("tools", Python311)>>)
\* {version: 2, build: {os: "ubuntu-22.04", tools: {python: "3.11"}}}
MinimalV2 == Dict(<<KV("version", Num(2)), KV("build", ModernBuild)>>)

\* the entry key: value of a mapping, no entry when the value is Unset
Opt(key, value) == IF value.t = "unset" THEN <<>> ELSE <<KV(key, value)>>

\* documents that differ in the version key
VersionDocs ==
  {Dict(<<KV("build", ModernBuild)>>)}
    \cup {Dict(<<KV("version", ver), KV("build", ModernBuild)>>) :
            ver \in {Num(0), Num(1), Num(2), Num(3), Str("1"), Str("2"), Str(" 2 "), Str("+1"),
                     Str("x"), Str("2.0"), Str(""), Float(10), Float(19), Float(20), Float(25),
                     Float(30), Null, Bool(TRUE), Bool(FALSE), List(<<Num(1)>>),
                     Dict(<<KV("a", Num(1))>>)}}

\* documents that differ in the formats key
FormatsDocs ==
  {DictSet(MinimalV2, "formats", formats) :
     formats \in {Str("all"), Str("ALL"), Str("pdf"), Null, Num(1), EmptyList,
                  StrList(<<"pdf">>), StrList(<<"pdf", "epub">>),
                  StrList(<<"epub", "pdf", "htmlzip">>), StrList(<<"pdf", "pdf">>),
                  StrList(<<"none">>), StrList(<<"all">>), StrList(<<"pdf", "docx">>),
                  List(<<Num(1)>>), Dict(<<KV("pdf", Bool(TRUE))>>)}}

\* values of submodules.include and submodules.exclude that are tried
SubmoduleValues ==
  {Unset, EmptyList, StrList(<<"a">>), StrList(<<"a", "b">>), Str(ALL),
   Str("x"), List(<<Num(1)>>), Null}

\* documents that differ in the submodules section
SubmoduleDocs ==
  {DictSet(MinimalV2, "submodules",
           Dict(Opt("include", include) \o Opt("exclude", exclude)
                  \o Opt("recursive", recursive))) :
     include \in SubmoduleValues, exclude \in SubmoduleValues,
     recursive \in {Unset, Bool(TRUE), Str("x")}}

\* documents that differ in the os, tools, commands and jobs of the build section
BuildDocs ==
  {DictSet(MinimalV2, "build",
           Dict(Opt("os", os) \o Opt("tools", tools) \o Opt("commands", commands)
                  \o Opt("jobs", jobs))) :
     os \in {Unset, Str("ubuntu-22.04"), Str("debian")},
     tools \in {Unset, EmptyDict, Python311, Dict(<<KV("python", Str("9"))>>),
                Dict(<<KV("nodejs", Str("18")), KV("python", Str("3"))>>),
                Dict(<<KV("ruby", Str("1"))>>), Str("x")},
     commands \in {Unset, EmptyList, StrList(<<"echo hi">>), List(<<Num(1)>>), Str("x")},
     jobs \in {Unset, EmptyDict, Dict(<<KV("pre_build", StrList(<<"x">>))>>),
               Dict(<<KV("pre_build", EmptyList)>>),
               Dict(<<KV("compile", StrList(<<"x">>))>>),
               Dict(<<KV("pre_build", Str("x"))>>),
               Dict(<<KV("post_build", StrList(<<"x">>)), KV("pre_build", List(<<Num(1)>>))>>)}}

\* the characters package names are made of
AptAlphabet == {"a", "Z", "0", "-", ".", "+", "/", " ", "_"}

\* the strings over AptAlphabet of at most n characters
RECURSIVE AptNames(_)
AptNames(n) ==
  IF n = 0 THEN {""}
  ELSE {""} \cup {c \o name : c \in AptAlphabet, name \in AptNames(n - 1)}

\* values of build.apt_packages that are tried
AptLists ==
  {List(<<Str(name)>>) : name \in AptNames(MaxNameLen)}
    \cup {StrList(names) :
            names \in UNION {[1..n -> {"libfoo-dev", "-bad", " a+ ", "b.1"}] :
                               n \in 2..MaxAptEntries}}
    \cup {EmptyList, Null, Str("vim"), List(<<Num(1)>>), List(<<Str("vim"), Null>>)}

\* documents that differ in build.apt_packages, on the legacy and on the modern path
AptDocs ==
  {DictSet(MinimalV2, "build", build) :
     build \in {Dict(<<KV("apt_packages", packages)>>) : packages \in AptLists}
                 \cup {DictSet(ModernBuild, "apt_packages", packages) : packages \in AptLists}}

\* documents with keys that no stage consumes
ExtraKeyDocs ==
  {Dict(MinimalV2.v \o extra) :
     extra \in {<<KV("foo", Str("bar"))>>,
                <<KV("foo", Str("bar")), KV("bar", Num(1))>>,
                <<KV("bar", Num(1)), KV("foo", Str("bar"))>>,
                <<KV("foo", EmptyDict)>>,
                <<KV("foo", Dict(<<KV("a", Dict(<<KV("b", Num(1)), KV("c", Num(2))>>)),
                                   KV("d", Num(3))>>))>>,
                <<KV("foo.bar", Num(1))>>,
                <<KV("", Num(1))>>,
                <<KV("", EmptyDict)>>,
                <<KV("", Dict(<<KV("a", Num(1))>>))>>,
                <<KV("", Num(1)), KV("foo", Str("bar"))>>,
                <<KV("sphinx", Dict(<<KV("builder", Str("html")), KV("extra", Num(1))>>))>>,
                <<KV("search", Dict(<<KV("extra", EmptyDict)>>)), KV("foo", Str("bar"))>>,
                <<KV("python", Dict(<<KV("version", Str("3"))>>))>>,
                <<KV("submodules", Dict(<<KV("include", EmptyList), KV("extra", Num(1))>>))>>}}
    \cup {Dict(<<KV("foo", Str("bar"))>> \o MinimalV2.v),
          Dict(<<KV("version", Num(2)),
                 KV("build", Dict(ModernBuild.v \o <<KV("extra", Dict(<<KV("deep", Num(1))>>))>>))>>),
          Dict(<<KV("version", Num(2)),
                 KV("build", Dict(<<KV("image", Str("latest")), KV("extra", Num(1))>>)),
                 KV("foo", Str("bar"))>>)}

\* entries of python.install that are tried
InstallEntries ==
  {Dict(Opt("requirements", requirements) \o Opt("path", path) \o Opt("method", method)
          \o Opt("extra_requirements", extra)) :
     requirements \in {Unset, Str("requirements.txt")},
     path \in {Unset, Str("."), Str("/abs"), Num(1)},
     method \in {Unset, Str(PIP), Str(SETUPTOOLS), Str("egg"), Null},
     extra \in {Unset, EmptyList, StrList(<<"x">>), List(<<Num(1)>>), Str("x")}}

\* documents that differ in python.install
InstallDocs ==
  {DictSet(MinimalV2, "python", Dict(<<KV("install", install)>>)) :
     install \in {List(<<entry>>) : entry \in InstallEntries}
                   \cup {List(<<Dict(<<KV("requirements", Str("requirements.txt"))>>), entry>>) :
                           entry \in InstallEntries}
                   \cup {List(<<first, second>>) :
                           first \in {EmptyDict, Dict(<<KV("path", Str("."))>>),
                                      Dict(<<KV("method", Str(PIP))>>)},
                           second \in {EmptyDict, Dict(<<KV("path", Str("/abs"))>>),
                                       Dict(<<KV("requirements", Str("requirements.txt"))>>),
                                       Dict(<<KV("requirements", Str("requirements.txt")),
                                              KV("path", Str("."))>>)}}
                   \cup {EmptyList, Null, Str("x"), List(<<Str("x")>>)}}

\* V1 python sections: pip_install and extra_requirements in both orders, and versions
V1PythonValues ==
  {Unset, Str("x")}
    \cup {Dict(Opt("pip_install", pip) \o Opt("extra_requirements", extra)) :
            pip \in {Unset, Bool(TRUE), Bool(FALSE), Num(1), Num(0), Str("yes")},
            extra \in {Unset, EmptyList, StrList(<<"x">>), StrList(<<"x", "y">>),
                       List(<<Num(1)>>), Str("x")}}
    \cup {Dict(Opt("extra_requirements", extra) \o Opt("pip_install", pip)) :
            pip \in {Bool(TRUE), Bool(FALSE)},
            extra \in {EmptyList, StrList(<<"x">>), List(<<Num(1)>>)}}
    \cup {Dict(<<KV("version", ver)>>) :
            ver \in {Str("2"), Str("3.5"), Str("3.7"), Float(37), Float(38), Str("3.9"),
                     Num(3), Str("9"), Str("pypy3.5")}}
    \cup {Dict(Opt("pip_install", pip) \o <<KV("setup_py_install", setup)>>
                 \o Opt("extra_requirements", extra)) :
            pip \in {Unset, Bool(TRUE), Bool(FALSE)},
            setup \in {Bool(TRUE), Bool(FALSE), Str("yes")},
            extra \in {Unset, StrList(<<"x">>)}}

\* V1 build sections
V1BuildValues ==
  {Unset, EmptyDict, Null, Str("image")}
    \cup {Dict(<<KV("image", image)>>) :
            image \in {Str("2.0"), Str("4.0"), Float(40), Str("latest"), Str("testing"),
                       Str("9.9")}}

\* V1 documents that differ in the python and build sections
V1PythonDocs ==
  {Dict(Opt("build", build) \o Opt("python", python)) :
     build \in V1BuildValues, python \in V1PythonValues}

\* V1 documents with several sections, some of them offending
V1SectionDocs ==
  {Dict(Opt("version", ver) \o Opt("formats", formats) \o Opt("conda", conda)
          \o Opt("requirements_file", requirements) \o Opt("python", python)
          \o Opt("build", build) \o extra) :
     ver \in {Unset, Num(1)},
     formats \in {Unset, StrList(<<"pdf">>), StrList(<<"docx">>), Str("pdf"),
                  StrList(<<"none">>)},
     conda \in {Unset, Dict(<<KV("file", Str("environment.yml"))>>), EmptyDict, Str("x")},
     requirements \in {Unset, Str("requirements.txt"), Str("/abs"), Num(1)},
     python \in {Unset, Dict(<<KV("version", Str("9"))>>)},
     build \in {Unset, Dict(<<KV("image", Str("9.9"))>>)},
     extra \in {<<>>, <<KV("foo", Str("bar"))>>,
                <<KV("submodules", Dict(<<KV("include", EmptyList),
                                          KV("exclude", StrList(<<"a">>)),
                                          KV("recursive", Bool(FALSE))>>)),
                  KV("search", Dict(<<KV("ignore", StrList(<<"a.html">>))>>))>>}}

\* values of env_config that V1 documents are validated with
V1EnvConfigs ==
  {EmptyDict,
   Dict(<<KV("defaults", Dict(<<KV("build_image", Str("readthedocs/build:4.0"))>>))>>),
   Dict(<<KV("defaults", Dict(<<KV("build_image", Str("custom/image:1")),
                                KV("python_version", Str("3")),
                                KV("install_project", Bool(TRUE)),
                                KV("doctype", Str("sphinx")),
                                KV("sphinx_configuration", Null)>>))>>),
   Dict(<<KV("build", Dict(<<KV("image", Str("readthedocs/build:2.0"))>>))>>),
   Dict(<<KV("python", Dict(<<KV("supported_versions", StrList(<<"3.9">>))>>)),
          KV("build", Dict(<<KV("image", Str("custom/image:1"))>>))>>)}

\* V2 documents on the legacy build path, with and without a python version
V2LegacyDocs ==
  {Dict(<<KV("version", Num(2))>> \o Opt("build", build) \o Opt("python", python)) :
     build \in {Unset, EmptyDict, Dict(<<KV("image", Str("latest"))>>),
                Dict(<<KV("image", Str("stable"))>>), Dict(<<KV("image", Str("9.9"))>>),
                Dict(<<KV("image", Str("testing"))>>), Dict(<<KV("image", Float(40))>>)},
     python \in {Unset, EmptyDict}
                  \cup {Dict(<<KV("version", ver)>>) :
                          ver \in {Str("3"), Str("3.7"), Float(37), Float(31), Str("3.8"),
                                   Num(3), Str("3.11"), Null}}}

\* V2 documents with several sections, some of them offending
V2SectionDocs ==
  {Dict(<<KV("version", Num(2))>> \o Opt("formats", formats) \o Opt("conda", conda)
          \o <<KV("build", build)>> \o Opt("python", python) \o Opt("mkdocs", mkdocs)
          \o Opt("sphinx", sphinx) \o Opt("submodules", submodules)
          \o Opt("search", search) \o extra) :
     formats \in {Unset, StrList(<<"docx">>)},
     conda \in {Unset, Str("x")},
     build \in {ModernBuild, Dict(<<KV("os", Str("debian")), KV("tools", Python311)>>)},
     python \in {Unset, Dict(<<KV("install", Str("x"))>>)},
     mkdocs \in {Unset, Dict(<<KV("configuration", Num(1))>>)},
     sphinx \in {Unset, Dict(<<KV("builder", Str("x"))>>)},
     submodules \in {Unset, Dict(<<KV("include", Str(ALL)), KV("exclude", Str(ALL))>>)},
     search \in {Unset, Dict(<<KV("ranking", Num(1))>>)},
     extra \in {<<>>, <<KV("foo", Str("bar"))>>}}

\* V2 documents that differ in the documentation tool and the build commands
DocToolDocs ==
  {Dict(<<KV("version", Num(2)), KV("build", build)>> \o Opt("mkdocs", mkdocs)
          \o Opt("sphinx", sphinx)) :
     build \in {ModernBuild,
                Dict(<<KV("os", Str("ubuntu-22.04")), KV("commands", StrList(<<"echo hi">>))>>),
                Dict(<<KV("image", Str("latest"))>>)},
     mkdocs \in {Unset, Null, EmptyDict, Dict(<<KV("configuration", Str("mkdocs.yml"))>>),
                 Dict(<<KV("fail_on_warning", Bool(TRUE))>>)},
     sphinx \in {Unset, Null, EmptyDict, Dict(<<KV("configuration", Str("docs/conf.py"))>>)}
                  \cup {Dict(<<KV("builder", Str(builder))>>) :
                          builder \in {"html", "htmldir", "dirhtml", "singlehtml", "text"}}}

\* V2 documents on the modern build path that declare python.version
ModernVersionDocs ==
  {Dict(<<KV("version", Num(2))>> \o lead
          \o <<KV("build", ModernBuild), KV("python", python)>>) :
     lead \in {<<>>, <<KV("", Num(1))>>, <<KV("foo", Num(1))>>},
     python \in {Dict(<<KV("version", Str("3.8"))>>), Dict(<<KV("version", Float(31))>>),
                 Dict(<<KV("version", Str("3.8")),
                        KV("install",
                           List(<<Dict(<<KV("requirements", Str("requirements.txt"))>>)>>))>>),
                 Dict(<<KV("install",
                           List(<<Dict(<<KV("requirements", Str("requirements.txt"))>>)>>)),
                        KV("version", Num(3))>>)}}

\* documents validated with each of the EnvConfigs
Documents ==
  VersionDocs \cup FormatsDocs \cup SubmoduleDocs \cup BuildDocs \cup ExtraKeyDocs
    \cup InstallDocs \cup V2LegacyDocs \cup V2SectionDocs \cup DocToolDocs
    \cup ModernVersionDocs

\* values of env_config that are tried
EnvConfigs ==
  {EmptyDict,
   Dict(<<KV("defaults", Dict(<<KV("build_image", Str("readthedocs/build:4.0")),
                                KV("sphinx_configuration", Str("docs/conf.py"))>>))>>)}

\* per-project image overrides: an image of the catalog and one that is not in it
LegacyEnvConfigs ==
  {Dict(<<KV("defaults", Dict(<<KV("build_image", Str(image))>>))>>) :
     image \in {"readthedocs/build:testing", "custom/build:1"}}

\* names of directory entries that are tried
FileNames ==
  {prefix \o stem \o sep \o ext :
     prefix \in {"", ".", "x"}, stem \in {"readthedocs", "Readthedocs"},
     sep \in {".", "x", ""}, ext \in {"yml", "yaml", "yl"}}
    \cup {"custom.yaml"}

FileLists == UNION {[1..n -> FileNames] : n \in 0..MaxRootFiles}

(***************************************************************************)
(* State                                                                   *)
(***************************************************************************)
VARIABLES
  files,                  \* entries of the project directory
  readthedocs_yaml_path,  \* the explicit config path, "" when not given
  parses,                 \* whether the text of the file parses
  document,               \* the mapping the parser returns
  env_config,             \* the environment defaults passed to load()
  env_given,              \* env_config as the caller built it
  peer,                   \* a second validation that was handed the same env_config
  call,                   \* the pop_config() call made last, when pop is run on its own
  filename,               \* the file load() settled on
  cls,                    \* the configuration class selected
  raw,                    \* BuildConfigBase._raw_config
  config,                 \* BuildConfigBase._config
  err,                    \* the exception that ended load(), NoErr when none
  entered,                \* the validation stages entered so far, in order
  last,                   \* the step of load() that ran last, "" before the first
  pc                      \* position of load()

vars == <<files, readthedocs_yaml_path, parses, document, env_config, env_given, peer, call,
          filename, cls, raw, config, err, entered, last, pc>>

\* what no step of this load() writes
inputs == <<files, readthedocs_yaml_path, parses, document, env_given, peer, call>>

EmptyConfig ==
  [formats |-> Unset, conda |-> Unset, build |-> Unset, python |-> Unset,
   mkdocs |-> Unset, sphinx |-> Unset, submodules |-> Unset, search |-> Unset,
   requirements_file |-> Unset]

\* BuildConfigBase.defaults
Defaults(env) == GetOr(env, "defaults", EmptyDict)

\* a validation at position pc: source_config, _raw_config, _config and its error
Validation(source_config, position, raw_config, sections, error) ==
  [source_config |-> source_config, pc |-> position, raw |-> raw_config,
   config |-> sections, err |-> error]


\* the state load() has in common whatever it is given
Loading ==
  /\ filename = ""
  /\ cls = "none"
  /\ raw = EmptyDict
  /\ config = EmptyConfig
  /\ err = NoErr
  /\ entered = <<>>
  /\ last = ""
  /\ pc = "locate"
  /\ env_given = env_config
  /\ call = [name |-> "", raise_ex |-> FALSE, container |-> EmptyDict, code |-> "",
             val |-> Unset]

Init ==
  /\ \/ /\ files \in FileLists
        /\ readthedocs_yaml_path \in {"", "custom.yaml"}
        /\ parses \in BOOLEAN
        /\ document = MinimalV2
        /\ env_config = EmptyDict
     \/ /\ files = <<".readthedocs.yaml">>
        /\ readthedocs_yaml_path = ""
        /\ parses = TRUE
        /\ \/ document \in Documents /\ env_config \in EnvConfigs
           \/ document \in AptDocs /\ env_config = EmptyDict
           \/ document \in V1PythonDocs \cup V1SectionDocs /\ env_config \in V1EnvConfigs
           \/ document \in V2LegacyDocs /\ env_config \in LegacyEnvConfigs
  /\ peer = Validation(EmptyDict, "none", EmptyDict, EmptyConfig, NoErr)
  /\ Loading

\* load() ends with an exception
Raise(error) ==
  /\ err' = error
  /\ pc' = "failed"

\* load() goes on at position next
Goto(next) ==
  /\ pc' = next
  /\ UNCHANGED err

(***************************************************************************)
(* load()                                                                  *)
(***************************************************************************)
LocateExplicit ==
  /\ last' = pc
  /\ pc = "locate"
  /\ readthedocs_yaml_path # ""
  /\ IF readthedocs_yaml_path \notin Range(files)
     THEN /\ Raise(ConfigError("ConfigFileNotFound", CONFIG_FILE_REQUIRED))
          /\ UNCHANGED filename
     ELSE /\ filename' = readthedocs_yaml_path
          /\ Goto("parse")
  /\ UNCHANGED <<inputs, env_config, cls, raw, config, entered>>

LocateDefault ==
  /\ last' = pc
  /\ pc = "locate"
  /\ readthedocs_yaml_path = ""
  /\ IF find_one(files, CONFIG_FILENAME_REGEX) = ""
     THEN /\ Raise(ConfigError("DefaultConfigFileNotFound", CONFIG_FILE_REQUIRED))
          /\ UNCHANGED filename
     ELSE /\ filename' = find_one(files, CONFIG_FILENAME_REGEX)
          /\ Goto("parse")
  /\ UNCHANGED <<inputs, env_config, cls, raw, config, entered>>

Parse ==
  /\ last' = pc
  /\ pc = "parse"
  /\ IF ~parses
     THEN Raise(ConfigError("ConfigError", CONFIG_SYNTAX_INVALID))
     ELSE Goto("dispatch")
  /\ UNCHANGED <<inputs, env_config, filename, cls, raw, config, entered>>

\* config.get('version', 1), get_configuration_class and the constructor
Dispatch ==
  /\ last' = pc
  /\ pc = "dispatch"
  /\ LET selected == get_configuration_class(GetOr(document, "version", Num(1)))
     IN IF IsErr(selected.err)
        THEN /\ Raise(selected.err)
             /\ UNCHANGED <<cls, raw>>
        ELSE /\ cls' = selected.cls
             /\ raw' = document
             /\ Goto(IF selected.cls = "V1" THEN "v1_build" ELSE "v2_formats")
  /\ UNCHANGED <<inputs, env_config, filename, config, entered>>

(***************************************************************************)
(* validate(): one action per stage                                        *)
(***************************************************************************)
\* a stage whose error is recorded while validate() goes on with the next stage
Stage_collecting_errors(name, r, section, next) ==
  /\ entered' = Append(entered, name)
  /\ raw' = r.raw
  /\ config' = IF section = "" \/ IsErr(r.err) THEN config
                ELSE [config EXCEPT ![section] = r.val]
  /\ err' = IF IsErr(r.err) THEN r.err ELSE err
  /\ pc' = next
  /\ last' = pc
  /\ UNCHANGED <<inputs, filename, cls>>
\* a stage that ran to its result r and is followed by the stage at next
Stage(name, r, section, next) ==
  /\ entered' = Append(entered, name)
  /\ raw' = r.raw
  /\ IF IsErr(r.err)
     THEN /\ Raise(r.err)
          /\ UNCHANGED config
     ELSE /\ config' = IF section = "" THEN config ELSE [config EXCEPT ![section] = r.val]
          /\ Goto(next)
  /\ last' = pc
  /\ UNCHANGED <<inputs, filename, cls>>

V2Formats ==
  /\ pc = "v2_formats"
  /\ Stage("formats", V2_validate_formats(raw), "formats", "v2_conda")
  /\ UNCHANGED env_config

V2Conda ==
  /\ pc = "v2_conda"
  /\ Stage("conda", V2_validate_conda(raw), "conda", "v2_build")
  /\ UNCHANGED env_config

V2Build ==
  /\ pc = "v2_build"
  /\ Stage("build", V2_validate_build(raw, Defaults(env_config)), "build", "v2_python")
  /\ UNCHANGED env_config

V2Python ==
  /\ pc = "v2_python"
  /\ Stage("python", V2_validate_python(raw, config.build), "python", "v2_doc_types")
  /\ UNCHANGED env_config

V2DocTypes ==
  /\ pc = "v2_doc_types"
  /\ Stage("doc_types", V2_validate_doc_types(raw), "", "v2_mkdocs")
  /\ UNCHANGED env_config

V2Mkdocs ==
  /\ pc = "v2_mkdocs"
  /\ Stage("mkdocs", V2_validate_mkdocs(raw), "mkdocs", "v2_sphinx")
  /\ UNCHANGED env_config

V2Sphinx ==
  /\ pc = "v2_sphinx"
  /\ Stage("sphinx", V2_validate_sphinx(raw, config, Defaults(env_config)), "sphinx",
           "v2_submodules")
  /\ UNCHANGED env_config

V2Submodules ==
  /\ pc = "v2_submodules"
  /\ Stage("submodules", V2_validate_submodules(raw), "submodules", "v2_search")
  /\ UNCHANGED env_config

V2Search ==
  /\ pc = "v2_search"
  /\ Stage("search", V2_validate_search(raw), "search", "v2_keys")
  /\ UNCHANGED env_config

V2Keys ==
  /\ pc = "v2_keys"
  /\ Stage("keys", V2_validate_keys(raw), "", "done")
  /\ UNCHANGED env_config

V1Build ==
  /\ pc = "v1_build"
  /\ LET r == V1_validate_build(raw, env_config, Defaults(env_config))
     IN /\ Stage("build", r.res, "build", "v1_python")
        /\ env_config' = r.env

V1Python ==
  /\ pc = "v1_python"
  /\ Stage("python", V1_validate_python(raw, env_config, Defaults(env_config)), "python",
           "v1_formats")
  /\ UNCHANGED env_config

V1Formats ==
  /\ pc = "v1_formats"
  /\ Stage("formats", V1_validate_formats(raw, Defaults(env_config)), "formats", "v1_conda")
  /\ UNCHANGED env_config

V1Conda ==
  /\ pc = "v1_conda"
  /\ Stage("conda", V1_validate_conda(raw), "conda", "v1_requirements_file")
  /\ UNCHANGED env_config

V1RequirementsFile ==
  /\ pc = "v1_requirements_file"
  /\ Stage("requirements_file", V1_validate_requirements_file(raw, Defaults(env_config)),
           "requirements_file", "done")
  /\ UNCHANGED env_config

Next ==
  \/ LocateExplicit
  \/ LocateDefault
  \/ Parse
  \/ Dispatch
  \/ V2Formats
  \/ V2Conda
  \/ V2Build
  \/ V2Python
  \/ V2DocTypes
  \/ V2Mkdocs
  \/ V2Sphinx
  \/ V2Submodules
  \/ V2Search
  \/ V2Keys
  \/ V1Build
  \/ V1Python
  \/ V1Formats
  \/ V1Conda
  \/ V1RequirementsFile

Spec == Init /\ [][Next]_vars

(***************************************************************************)
(* Two validations that share one env_config object                        *)
(***************************************************************************)
\* the stage validate() runs at a position: its result, env_config afterwards,
\* the section of _config it fills ("" when none) and the position that follows
StageAt(position, raw_config, sections, env) ==
  CASE position = "v1_build" ->
         [res |-> V1_validate_build(raw_config, env, Defaults(env)).res,
          env |-> V1_validate_build(raw_config, env, Defaults(env)).env,
          section |-> "build", next |-> "v1_python"]
    [] position = "v1_python" ->
         [res |-> V1_validate_python(raw_config, env, Defaults(env)), env |-> env,
          section |-> "python", next |-> "v1_formats"]
    [] position = "v1_formats" ->
         [res |-> V1_validate_formats(raw_config, Defaults(env)), env |-> env,
          section |-> "formats", next |-> "v1_conda"]
    [] position = "v1_conda" ->
         [res |-> V1_validate_conda(raw_config), env |-> env,
          section |-> "conda", next |-> "v1_requirements_file"]
    [] position = "v1_requirements_file" ->
         [res |-> V1_validate_requirements_file(raw_config, Defaults(env)), env |-> env,
          section |-> "requirements_file", next |-> "done"]
    [] position = "v2_formats" ->
         [res |-> V2_validate_formats(raw_config), env |-> env,
          section |-> "formats", next |-> "v2_conda"]
    [] position = "v2_conda" ->
         [res |-> V2_validate_conda(raw_config), env |-> env,
          section |-> "conda", next |-> "v2_build"]
    [] position = "v2_build" ->
         [res |-> V2_validate_build(raw_config, Defaults(env)), env |-> env,
          section |-> "build", next |-> "v2_python"]
    [] position = "v2_python" ->
         [res |-> V2_validate_python(raw_config, sections.build), env |-> env,
          section |-> "python", next |-> "v2_doc_types"]
    [] position = "v2_doc_types" ->
         [res |-> V2_validate_doc_types(raw_config), env |-> env,
          section |-> "", next |-> "v2_mkdocs"]
    [] position = "v2_mkdocs" ->
         [res |-> V2_validate_mkdocs(raw_config), env |-> env,
          section |-> "mkdocs", next |-> "v2_sphinx"]
    [] position = "v2_sphinx" ->
         [res |-> V2_validate_sphinx(raw_config, sections, Defaults(env)), env |-> env,
          section |-> "sphinx", next |-> "v2_submodules"]
    [] position = "v2_submodules" ->
         [res |-> V2_validate_submodules(raw_config), env |-> env,
          section |-> "submodules", next |-> "v2_search"]
    [] position = "v2_search" ->
         [res |-> V2_validate_search(raw_config), env |-> env,
          section |-> "search", next |-> "v2_keys"]
    [] position = "v2_keys" ->
         [res |-> V2_validate_keys(raw_config), env |-> env,
          section |-> "", next |-> "done"]

\* a validation after its next stage has run to the result step
Advance(validation, step) ==
  IF IsErr(step.res.err)
  THEN Validation(validation.source_config, "failed", step.res.raw, validation.config,
                  step.res.err)
  ELSE Validation(validation.source_config, step.next, step.res.raw,
                  IF step.section = "" THEN validation.config
                  ELSE [validation.config EXCEPT ![step.section] = step.res.val],
                  NoErr)

\* the constructor of the class that load() selects for a document
Construct(doc) ==
  Validation(doc,
             IF get_configuration_class(GetOr(doc, "version", Num(1))).cls = "V1"
             THEN "v1_build" ELSE "v2_formats",
             doc, EmptyConfig, NoErr)

\* the second validation runs its next stage
PeerStage ==
  /\ peer.pc \notin {"none", "done", "failed"}
  /\ peer' = Advance(peer, StageAt(peer.pc, peer.raw, peer.config, env_config))
  /\ env_config' = StageAt(peer.pc, peer.raw, peer.config, env_config).env
  /\ UNCHANGED <<files, readthedocs_yaml_path, parses, document, env_given, call, filename,
                 cls, raw, config, err, entered, last, pc>>

\* documents of two projects validated side by side
SharedDocs ==
  {MinimalV2}
    \cup {Dict(Opt("build", build) \o Opt("python", python)) :
            build \in {Unset, Dict(<<KV("image", Str("2.0"))>>),
                       Dict(<<KV("image", Str("latest"))>>)},
            python \in {Unset, Dict(<<KV("version", Str("3.6"))>>),
                        Dict(<<KV("version", Str("3.8"))>>)}}

InitShared ==
  /\ files = <<".readthedocs.yaml">>
  /\ readthedocs_yaml_path \in {"", ".readthedocs.yaml"}
  /\ parses = TRUE
  /\ document \in SharedDocs
  /\ env_config \in {EmptyDict,
                      Dict(<<KV("build",
                                Dict(<<KV("image", Str("readthedocs/build:testing"))>>))>>)}
  /\ \E other \in SharedDocs : peer = Construct(other)
  /\ Loading

SpecShared == InitShared /\ [][Next \/ PeerStage]_vars

(***************************************************************************)
(* pop_config() on its own                                                 *)
(***************************************************************************)
\* mappings of one level over the keys a and b
PopInner ==
  {Dict(Opt("a", x) \o Opt("b", y)) : x, y \in {Unset, Num(1), EmptyDict}}

\* raw mappings that are popped from
PopContainers ==
  {Dict(Opt("a", x) \o Opt("b", y)) : x, y \in {Unset, Num(1), Null} \cup PopInner}
    \cup {Dict(<<KV("a", Dict(<<KV("b", inner)>> \o Opt("c", sibling)))>>) :
            inner \in {Dict(<<KV("c", Num(1))>>), Dict(<<KV("c", EmptyDict)>>),
                       Dict(<<KV("c", Num(1)), KV("a", Num(1))>>)},
            sibling \in {Unset, Num(1)}}

\* dotted key paths that are popped
PopNames == {"a", "b", "c", "a.b", "a.a", "b.a", "a.b.c"}

\* the default the pops are made with
PopDefault == Str("default")

InitPop ==
  /\ files = <<>>
  /\ readthedocs_yaml_path = ""
  /\ parses = TRUE
  /\ document \in PopContainers
  /\ env_config = EmptyDict
  /\ env_given = EmptyDict
  /\ peer = Validation(EmptyDict, "none", EmptyDict, EmptyConfig, NoErr)
  /\ call = [name |-> "", raise_ex |-> FALSE, container |-> EmptyDict, code |-> "",
             val |-> Unset]
  /\ filename = ""
  /\ cls = "none"
  /\ raw = document
  /\ config = EmptyConfig
  /\ err = NoErr
  /\ entered = <<>>
  /\ last = ""
  /\ pc = "pop"

\* one pop_config(name, default, raise_ex) on _raw_config; entered keeps the
\* names whose leaf the pop found
PopConfig ==
  /\ pc = "pop"
  /\ \E name \in PopNames, raise_ex \in BOOLEAN :
       /\ call' = [name |-> name, raise_ex |-> raise_ex, container |-> raw,
                   code |-> pop_config(raw, name, PopDefault, raise_ex).code,
                   val |-> pop_config(raw, name, PopDefault, raise_ex).val]
       /\ raw' = pop_config(raw, name, PopDefault, raise_ex).c
       /\ entered' = IF HasPath(raw, Split(name)) THEN Append(entered, name) ELSE entered
       /\ last' = name
  /\ UNCHANGED <<files, readthedocs_yaml_path, parses, document, env_config, env_given, peer,
                 filename, cls, config, err, pc>>

SpecPop == InitPop /\ [][PopConfig]_vars

(***************************************************************************)
(* Claims                                                                  *)
(***************************************************************************)
\* the version value of the document under load
VersionValue == Get(document, "version")
\* int(value) succeeds and gives n
CoercesTo(x, n) == PyInt(x).exc = "" /\ PyInt(x).n = n

\* C1: once load() has dispatched on the version, a document without a
\* version key has selected V1, a value that coerces to 1 has selected V1,
\* a value that coerces to 2 has selected V2, and every other value has
\* failed with code version-invalid and with no other kind of error.
C1_VersionDispatch ==
  last = "dispatch" =>
    IF ~HasKey(document, "version") THEN cls = "V1" /\ ~IsErr(err)
    ELSE IF CoercesTo(VersionValue, 1) THEN cls = "V1" /\ ~IsErr(err)
    ELSE IF CoercesTo(VersionValue, 2) THEN cls = "V2" /\ ~IsErr(err)
    ELSE pc = "failed" /\ err.kind = "InvalidConfig" /\ err.code = VERSION_INVALID

\* the version key is present and is neither 1 nor 2 after coercion
UnsupportedVersion ==
  HasKey(document, "version") /\ ~CoercesTo(VersionValue, 1) /\ ~CoercesTo(VersionValue, 2)

\* C2: a structural failure is raised before any schema stage runs: a
\* missing explicit path fails with config-file-required without discovery,
\* a discovery without a match fails with config-file-required, a parse
\* error fails with config-syntax-invalid, an unsupported version fails with
\* version-invalid, and in each of these runs no validation stage is entered.
C2_StructuralFailuresFirst ==
  /\ (last = "locate" /\ readthedocs_yaml_path # "" /\ readthedocs_yaml_path \notin Range(files))
       => pc = "failed" /\ err.code = CONFIG_FILE_REQUIRED /\ filename = ""
  /\ (last = "locate" /\ readthedocs_yaml_path = "" /\ find_one(files, CONFIG_FILENAME_REGEX) = "")
       => pc = "failed" /\ err.code = CONFIG_FILE_REQUIRED
  /\ (last = "parse" /\ ~parses) => pc = "failed" /\ err.code = CONFIG_SYNTAX_INVALID
  /\ (last = "dispatch" /\ UnsupportedVersion) => pc = "failed" /\ err.code = VERSION_INVALID
  /\ (pc = "failed" /\ last \in {"locate", "parse", "dispatch"}) => entered = <<>>
  /\ entered # <<>> => ~IsErr(get_configuration_class(GetOr(document, "version", Num(1))).err)

\* the four names of the language of ^\.?readthedocs\.ya?ml$
ConfigFileNames == {".readthedocs.yml", ".readthedocs.yaml", "readthedocs.yml", "readthedocs.yaml"}

\* C3: discovery accepts a file name of the project root exactly when it is
\* one of .readthedocs.yml, .readthedocs.yaml, readthedocs.yml and
\* readthedocs.yaml; no other name is matched by the pattern load() uses.
C3_DiscoveryNames ==
  (last = "locate" /\ readthedocs_yaml_path = "") =>
    /\ (pc = "parse") = (\E i \in 1..Len(files) : files[i] \in ConfigFileNames)
    /\ pc = "parse" => filename \in ConfigFileNames

\* the keys of a mapping, in order
Keys(d) == [i \in 1..Len(d.v) |-> d.v[i].k]

\* validate() of BuildConfigV2 has returned without error
V2Validated == cls = "V2" /\ pc = "done"

\* C4: in every V2 run that validates, formats: all resolves to the full set
\* {htmlzip, pdf, epub}, any other accepted formats value is returned as the
\* list that was supplied with every member in that set, and an absent
\* formats key resolves to the empty list.
C4_Formats ==
  V2Validated =>
    IF ~HasKey(document, "formats") THEN config.formats = EmptyList
    ELSE IF EqStr(Get(document, "formats"), "all")
    THEN /\ config.formats.t = "list"
         /\ Range(config.formats.v) = {Str("htmlzip"), Str("pdf"), Str("epub")}
         /\ Len(config.formats.v) = 3
    ELSE /\ config.formats = Get(document, "formats")
         /\ config.formats.t = "list"
         /\ Range(config.formats.v) \subseteq {Str("htmlzip"), Str("pdf"), Str("epub")}

\* a validated run of a document with formats: all
C4_Witness ==
  /\ V2Validated
  /\ HasKey(document, "formats")
  /\ EqStr(Get(document, "formats"), "all")
  /\ config.formats = StrList(<<"htmlzip", "pdf", "epub">>)

\* the submodules section of the document, and a key of it (Unset when absent)
SubmodulesGiven == GetOr(document, "submodules", EmptyDict)
SubmodulesKey(key) == GetOr(SubmodulesGiven, key, Unset)
\* absent, the empty list, a non-empty list of strings, or ALL
IsSubmoduleChoice(x) ==
  \/ x.t = "unset"
  \/ EqStr(x, "all")
  \/ x.t = "list" /\ \A i \in 1..Len(x.v) : x.v[i].t = "str"
\* ALL or a non-empty list
NonEmptyChoice(x) == EqStr(x, "all") \/ (x.t = "list" /\ x.v # <<>>)
ResolvedInclude ==
  IF SubmodulesKey("include").t = "unset" THEN EmptyList ELSE SubmodulesKey("include")
ResolvedExclude ==
  IF SubmodulesKey("exclude").t # "unset" THEN SubmodulesKey("exclude")
  ELSE IF NonEmptyChoice(ResolvedInclude) THEN EmptyList
  ELSE Str("all")
\* the submodules stage has just run on one of the sixteen combinations
SubmodulesCase ==
  /\ last = "v2_submodules"
  /\ SubmodulesGiven.t = "dict"
  /\ IsSubmoduleChoice(SubmodulesKey("include"))
  /\ IsSubmoduleChoice(SubmodulesKey("exclude"))
  /\ SubmodulesKey("recursive").t \in {"unset", "bool"}

\* C5: over include and exclude each absent, empty, a non-empty list of
\* strings or ALL, the submodules stage fails with submodules-invalid exactly
\* when the resolved include and the resolved exclude are both non-empty, an
\* absent exclude resolving to ALL when include is empty and to the empty
\* list otherwise; every other combination passes with the resolved values.
C5_Submodules ==
  SubmodulesCase =>
    IF NonEmptyChoice(ResolvedInclude) /\ NonEmptyChoice(ResolvedExclude)
    THEN pc = "failed" /\ err = InvalidConfig("submodules", SUBMODULES_INVALID)
    ELSE /\ pc = "v2_search"
         /\ ~IsErr(err)
         /\ Get(config.submodules, "include") = ResolvedInclude
         /\ Get(config.submodules, "exclude") = ResolvedExclude

\* include is ALL, exclude is absent and so resolves to the empty list: the stage passes
C5_Witness ==
  /\ SubmodulesCase
  /\ EqStr(SubmodulesKey("include"), "all")
  /\ SubmodulesKey("exclude").t = "unset"
  /\ pc = "v2_search"
  /\ Get(config.submodules, "exclude") = EmptyList

\* C6: the minimal V2 document validates without error and resolves to a
\* modern build with os ubuntu-22.04, tools.python at the catalog's full
\* version of 3.11, no job commands, no custom commands and no apt packages;
\* no python version and no install steps; doc-type sphinx with a sphinx
\* section and no mkdocs section; include empty and exclude at its default;
\* empty search ranking and the default search-ignore list.
C6_MinimalDocument ==
  (document = MinimalV2 /\ cls = "V2") =>
    /\ pc # "failed"
    /\ pc = "done" =>
         /\ Get(V2_build(config), "os") = Str("ubuntu-22.04")
         /\ Keys(Get(V2_build(config), "tools")) = <<"python">>
         /\ Get(Get(Get(V2_build(config), "tools"), "python"), "full_version")
              = Str(ToolVersions("python")["3.11"])
         /\ Get(Get(Get(V2_build(config), "tools"), "python"), "full_version") = Str("3.11.0")
         /\ \A i \in 1..Len(Get(V2_build(config), "jobs").v) :
              Get(V2_build(config), "jobs").v[i].val = EmptyList
         /\ Get(V2_build(config), "commands") = EmptyList
         /\ Get(V2_build(config), "apt_packages") = EmptyList
         /\ ~HasKey(V2_build(config), "image")
         /\ Get(V2_python(config), "version") = Null
         /\ Get(V2_python(config), "install") = EmptyList
         /\ V2_doctype(config) = "sphinx"
         /\ V2_sphinx(config).t = "dict"
         /\ V2_mkdocs(config) = Null
         /\ Get(config.submodules, "include") = EmptyList
         /\ Get(config.submodules, "exclude") = Str("all")
         /\ Get(config.search, "ranking") = EmptyDict
         /\ Get(config.search, "ignore")
              = StrList(<<"search.html", "search/index.html", "404.html", "404/index.html">>)

\* the minimal document has gone through every stage
C6_Witness ==
  /\ document = MinimalV2
  /\ V2Validated
  /\ last = "v2_keys"
  /\ raw = EmptyDict

\* the build section of the document, and a key of it (Unset when absent)
BuildGiven == GetOr(document, "build", EmptyDict)
BuildKey(key) == GetOr(BuildGiven, key, Unset)
\* the build stage has just run on a non-empty commands list with a non-empty jobs mapping
CommandsWithJobs ==
  /\ last = "v2_build"
  /\ BuildGiven.t = "dict"
  /\ BuildKey("commands").t = "list" /\ BuildKey("commands").v # <<>>
  /\ BuildKey("jobs").t = "dict" /\ BuildKey("jobs").v # <<>>

\* C7 as stated: a V2 document whose build section holds a non-empty commands
\* list and a non-empty jobs mapping, such as exactly {commands: ["echo hi"],
\* jobs: {pre_build: ["x"]}}, fails with invalid-keys-combination.
C7_CommandsWithJobs ==
  CommandsWithJobs => pc = "failed" /\ err.code = INVALID_KEYS_COMBINATION

\* the build section is exactly {commands: ["echo hi"], jobs: {pre_build: ["x"]}}
ExactlyCommandsAndJobs ==
  BuildGiven = Dict(<<KV("commands", StrList(<<"echo hi">>)),
                      KV("jobs", Dict(<<KV("pre_build", StrList(<<"x">>))>>))>>)

\* os, tools and the job names pass the checks that come before the combination check
BuildPrechecksPass ==
  /\ BuildKey("os").t = "str" /\ BuildKey("os").v \in {"ubuntu-20.04", "ubuntu-22.04"}
  /\ \/ BuildKey("tools").t = "unset"
     \/ BuildKey("tools") = EmptyDict
     \/ /\ BuildKey("tools").t = "dict"
        /\ Range(Keys(BuildKey("tools"))) \subseteq {"python", "nodejs", "rust", "golang"}
  /\ Range(Keys(BuildKey("jobs"))) \subseteq Range(BuildJobNames)

\* C7 amended: a non-empty commands list with a non-empty jobs mapping fails
\* with invalid-keys-combination at build.commands when the build section
\* has a catalog os, tools that are absent, empty or a mapping of catalog
\* tool names, and legal job names; the build section of exactly
\* {commands: ["echo hi"], jobs: {pre_build: ["x"]}} has no os and fails with
\* value-not-found at build.os.
C7_CommandsWithJobsAmended ==
  /\ (CommandsWithJobs /\ BuildPrechecksPass)
       => pc = "failed" /\ err = InvalidConfig("build.commands", INVALID_KEYS_COMBINATION)
  /\ (CommandsWithJobs /\ ExactlyCommandsAndJobs)
       => pc = "failed" /\ err = InvalidConfig("build.os", VALUE_NOT_FOUND)

\* commands and jobs with a catalog os and no tools: the combination is refused
C7_Witness ==
  /\ CommandsWithJobs
  /\ BuildPrechecksPass
  /\ BuildKey("tools").t = "unset"
  /\ err = InvalidConfig("build.commands", INVALID_KEYS_COMBINATION)

\* the names of build.apt_packages as the document gives them
AptGiven == BuildKey("apt_packages")
\* the build stage has just run on a list of package names, on the legacy
\* path (no other build key) or on the modern path (a valid os and tools)
AptCase ==
  /\ last = "v2_build"
  /\ BuildGiven.t = "dict"
  /\ AptGiven.t = "list"
  /\ \A i \in 1..Len(AptGiven.v) : AptGiven.v[i].t = "str"
  /\ DictRemove(BuildGiven, "apt_packages") \in {EmptyDict, ModernBuild}
\* a trimmed name that is accepted: it does not start with -, / or . and
\* matches [A-Za-z0-9][A-Za-z0-9.+-]*
AcceptedName(name) ==
  /\ name # ""
  /\ CharAt(name, 1) \notin {"-", "/", "."}
  /\ IsAlnum(CharAt(name, 1))
  /\ \A i \in 2..Len(name) : IsAlnum(CharAt(name, i)) \/ CharAt(name, i) \in {".", "+", "-"}
\* the n-th name passes after trimming
AptEntryPasses(n) == AcceptedName(Strip(AptGiven.v[n].v))

\* C8: on the legacy and on the modern build path each apt package name is
\* trimmed and accepted exactly when the trimmed name does not start with
\* -, / or . and matches [A-Za-z0-9][A-Za-z0-9.+-]*; the first name that is
\* not accepted fails with invalid-name at build.apt_packages.<index>; when
\* all pass the build section holds the trimmed names in document order.
C8_AptPackages ==
  AptCase =>
    IF \A n \in 1..Len(AptGiven.v) : AptEntryPasses(n)
    THEN /\ pc = "v2_python"
         /\ ~IsErr(err)
         /\ Get(V2_build(config), "apt_packages")
              = StrList([n \in 1..Len(AptGiven.v) |-> Strip(AptGiven.v[n].v)])
    ELSE /\ pc = "failed"
         /\ \E n \in 1..Len(AptGiven.v) :
              /\ ~AptEntryPasses(n)
              /\ \A m \in 1..(n - 1) : AptEntryPasses(m)
              /\ err = InvalidConfig("build.apt_packages." \o NatToStr(n - 1), INVALID_NAME)

\* libfoo-dev passes and -bad after it fails at index 1, on the modern path
C8_Witness ==
  /\ AptCase
  /\ AptGiven = StrList(<<"libfoo-dev", "-bad">>)
  /\ HasKey(BuildGiven, "os")
  /\ err = InvalidConfig("build.apt_packages.1", INVALID_NAME)

\* the first remaining key path, depth-first, first key in document order at each level
RECURSIVE FirstKeyPath(_)
FirstKeyPath(d) ==
  IF d.t = "dict" /\ d.v # <<>>
  THEN IF d.v[1].val.t = "dict" /\ d.v[1].val.v # <<>>
       THEN d.v[1].k \o "." \o FirstKeyPath(d.v[1].val)
       ELSE d.v[1].k
  ELSE ""

\* C9: when every stage has passed and the raw mapping still holds a key
\* other than the top-level version, the sweep fails with invalid-key at the
\* first remaining key path, found depth-first with the first key in document
\* order at each level; with nothing left the validation succeeds.
C9_UnknownKeySweep ==
  last = "v2_keys" =>
    IF raw # EmptyDict
    THEN pc = "failed" /\ err = InvalidConfig(FirstKeyPath(raw), INVALID_KEY)
    ELSE pc = "done" /\ ~IsErr(err)

\* the python.install list of the document and its last entry
InstallGiven == Get(Get(document, "python"), "install")
LastEntry == InstallGiven.v[Len(InstallGiven.v)]
EntryKey(key) == GetOr(LastEntry, key, Unset)
\* the python stage has just run on a python.install list whose last entry
\* has a path and no requirements, every entry before it being valid
PathEntryCase ==
  /\ last = "v2_python"
  /\ HasKey(document, "python")
  /\ Get(document, "python").t = "dict"
  /\ HasKey(Get(document, "python"), "install")
  /\ InstallGiven.t = "list" /\ InstallGiven.v # <<>>
  /\ \A i \in 1..(Len(InstallGiven.v) - 1) :
       InstallGiven.v[i] = Dict(<<KV("requirements", Str("requirements.txt"))>>)
  /\ LastEntry.t = "dict"
  /\ EntryKey("requirements").t = "unset"
  /\ EntryKey("path") = Str(".")
  /\ EntryKey("extra_requirements").t \in {"unset", "list"}
\* the key of the last entry
LastEntryKey == "python.install." \o NatToStr(Len(InstallGiven.v) - 1)
\* the method and the extra requirements the last entry resolves to
ResolvedMethod == IF EntryKey("method").t = "unset" THEN Str("pip") ELSE EntryKey("method")
ResolvedExtra ==
  IF EntryKey("extra_requirements").t = "unset" THEN EmptyList
  ELSE EntryKey("extra_requirements")

\* C10: a python.install entry with a path takes pip as its method when none
\* is given and refuses a method other than pip and setuptools; it passes
\* with any extra_requirements list under pip and with an empty or absent
\* one under setuptools, and fails with python-invalid at
\* python.install.<index>.extra_requirements exactly when the list is
\* non-empty and the method is setuptools.
C10_InstallPath ==
  PathEntryCase =>
    IF ResolvedMethod \notin {Str("pip"), Str("setuptools")}
    THEN pc = "failed" /\ err.key = LastEntryKey \o ".method" /\ err.code # PYTHON_INVALID
    ELSE IF ResolvedExtra # EmptyList /\ ResolvedMethod = Str("setuptools")
    THEN /\ pc = "failed"
         /\ err = InvalidConfig(LastEntryKey \o ".extra_requirements", PYTHON_INVALID)
    ELSE /\ pc = "v2_doc_types"
         /\ ~IsErr(err)
         /\ Get(V2_python(config), "install").v[Len(InstallGiven.v)]
              = Dict(<<KV("path", Str(".")),
                       KV("method", ResolvedMethod),
                       KV("extra_requirements", ResolvedExtra)>>)

\* setuptools with extra requirements, as the second entry of the list
C10_Witness ==
  /\ PathEntryCase
  /\ Len(InstallGiven.v) = 2
  /\ ResolvedMethod = Str("setuptools")
  /\ ResolvedExtra = StrList(<<"x">>)
  /\ err = InvalidConfig("python.install.1.extra_requirements", PYTHON_INVALID)

\* the python section of a V1 document
V1PythonSection == GetOr(document, "python", Null)

\* the python stage of V1 has just run on a section that holds a list of extra
\* requirements and, at most, pip_install besides
ExtraRequirementsCase ==
  /\ cls = "V1"
  /\ last = "v1_python"
  /\ V1PythonSection.t = "dict"
  /\ Range(Keys(V1PythonSection)) \subseteq {"pip_install", "extra_requirements"}
  /\ HasKey(V1PythonSection, "extra_requirements")
  /\ Get(V1PythonSection, "extra_requirements").t = "list"

PipInstallOff ==
  \/ ~HasKey(V1PythonSection, "pip_install")
  \/ Get(V1PythonSection, "pip_install") \in {Bool(FALSE), Num(0)}

PipInstallOn ==
  /\ HasKey(V1PythonSection, "pip_install")
  /\ Get(V1PythonSection, "pip_install") \in {Bool(TRUE), Num(1)}

\* C11: in V1, a list of extra requirements with pip_install absent or false
\* raises no error and resolves to no extra requirements; with pip_install
\* true the list is kept when every item is a string and fails at
\* python.extra_requirements otherwise; the order of the two keys in the
\* document makes no difference, and no install step of the resolved python
\* section carries extra requirements unless pip_install is true.
C11_ExtraRequirements ==
  /\ ExtraRequirementsCase =>
       /\ PipInstallOff =>
            pc # "failed" /\ Get(config.python, "extra_requirements") = EmptyList
       /\ PipInstallOn =>
            IF AllStrings(Get(V1PythonSection, "extra_requirements").v)
            THEN /\ pc # "failed"
                 /\ Get(config.python, "extra_requirements")
                      = Get(V1PythonSection, "extra_requirements")
            ELSE /\ pc = "failed"
                 /\ err = InvalidConfig("python.extra_requirements", INVALID_STRING)
  /\ (cls = "V1" /\ pc = "done") =>
       \A i \in 1..Len(Get(V1_python(config), "install").v) :
         LET step == Get(V1_python(config), "install").v[i]
         IN (HasKey(step, "extra_requirements") /\ Truthy(Get(step, "extra_requirements")))
              => PipInstallOn /\ Get(step, "extra_requirements")
                                  = Get(V1PythonSection, "extra_requirements")

\* a non-empty list given after an explicit pip_install: false, dropped without error
C11_Witness ==
  /\ ExtraRequirementsCase
  /\ GetOr(V1PythonSection, "pip_install", Null) = Bool(FALSE)
  /\ Truthy(Get(V1PythonSection, "extra_requirements"))
  /\ pc = "v1_formats"
  /\ Get(config.python, "extra_requirements") = EmptyList

\* the stable error codes surfaced to callers
ClosedCodes ==
  {CONFIG_NOT_SUPPORTED, VERSION_INVALID, CONFIG_SYNTAX_INVALID, CONFIG_REQUIRED,
   CONFIG_FILE_REQUIRED, PYTHON_INVALID, SUBMODULES_INVALID, INVALID_KEYS_COMBINATION,
   INVALID_KEY, INVALID_NAME}

\* C12: every error raised while a schema generation validates a document is
\* an InvalidConfig that carries a code of the closed set and the key path
\* given by the caller, the errors re-raised from a validation primitive
\* included.
C12_ClosedCodes ==
  (pc = "failed" /\ entered # <<>>) =>
    /\ err.kind = "InvalidConfig"
    /\ err.code \in ClosedCodes
    /\ err.key # ""

\* C13: at every step of load() and validate(), in V1 and in V2, on success
\* and on failure, the env_config mapping is as it was passed in.
C13_EnvConfigNeverMutated == env_config = env_given

\* validate() of a validation run to its end with env_config to itself
RECURSIVE RunAlone(_, _)
RunAlone(validation, env) ==
  IF validation.pc \in {"done", "failed"} THEN validation
  ELSE RunAlone(Advance(validation, StageAt(validation.pc, validation.raw,
                                            validation.config, env)),
                StageAt(validation.pc, validation.raw, validation.config, env).env)

\* C14: when two validations run with their stages interleaved in any order
\* on one env_config object, each ends with the sections or the error it
\* ends with when it runs alone on env_config as the caller built it.
C14_InterleavingIndependent ==
  /\ (pc \in {"done", "failed"} /\ entered # <<>>) =>
       /\ config = RunAlone(Construct(document), env_given).config
       /\ err = RunAlone(Construct(document), env_given).err
  /\ peer.pc \in {"done", "failed"} =>
       /\ peer.config = RunAlone(Construct(peer.source_config), env_given).config
       /\ peer.err = RunAlone(Construct(peer.source_config), env_given).err

\* C15: when validate() of either generation has returned without error the
\* working raw mapping holds no key other than version, so that a document
\* with a key that no stage consumes never validates.
C15_RawConsumed ==
  (pc = "done") => Range(Keys(raw)) \subseteq {"version"}

\* getattr(config, name) on the config that load() returned
Attribute(name) ==
  IF cls = "V1" THEN V1_getattr(config, Defaults(env_given), name)
  ELSE V2_getattr(config, name)

\* C16: on a validated V1 or V2 config, reading a name the class does not
\* implement raises ConfigOptionNotSupportedError with code
\* config-not-supported naming it, and reading any of the ten public
\* attributes returns a value or raises that error, never any other.
C16_AttributeReads ==
  (pc = "done") =>
    /\ Attribute("redirects").err
         = [kind |-> "ConfigOptionNotSupportedError", code |-> CONFIG_NOT_SUPPORTED,
            key |-> "redirects"]
    /\ \A i \in 1..Len(PUBLIC_ATTRIBUTES) :
         Attribute(PUBLIC_ATTRIBUTES[i]).err.kind
           \in {"none", "ConfigOptionNotSupportedError"}

\* the fields of the build environment of the validated config
BuildFields == Range(Keys(Attribute("build").val))
ModernForm == BuildFields = {"os", "tools", "jobs", "commands", "apt_packages"}
LegacyForm == "image" \in BuildFields /\ BuildFields \subseteq {"image", "apt_packages"}
\* the build mapping of the document, empty when the document has none
DocumentBuild == GetOr(document, "build", EmptyDict)

\* C17: in every validated config the build environment has exactly one of
\* the two forms: the modern one exactly when the config is V2 and the build
\* mapping of the document holds one of os, commands, tools, the legacy one
\* otherwise; and the python version is absent exactly when it is modern.
C17_BuildForms ==
  (pc = "done") =>
    /\ ModernForm \/ LegacyForm
    /\ ModernForm <=> (cls = "V2" /\ \E key \in {"os", "commands", "tools"} :
                                        HasKey(DocumentBuild, key))
    /\ (Get(Attribute("python").val, "version").t = "null") <=> ModernForm

\* a validated modern build with commands and no tools
C17_Witness ==
  /\ pc = "done"
  /\ cls = "V2"
  /\ ModernForm
  /\ ~HasKey(DocumentBuild, "tools")
  /\ HasKey(DocumentBuild, "commands")
  /\ Get(Attribute("python").val, "version").t = "null"

\* the python stage of V1 has just run on a section that holds only a version
V1VersionCase ==
  /\ cls = "V1"
  /\ last = "v1_python"
  /\ V1PythonSection.t = "dict"
  /\ Keys(V1PythonSection) = <<"version">>

\* the image the Specification reports
ReportedImage == PyStr(Get(config.build, "image"))

\* C18: in V1 a python.version is accepted exactly when it is one of the
\* versions supported by the build image that the Specification reports,
\* the image after the default, the user's choice and the per-project
\* override; otherwise validation fails at python.version.
C18_VersionOfResolvedImage ==
  (V1VersionCase /\ ReportedImage \in ImageNames) =>
    IF PyStr(Get(V1PythonSection, "version"))
         \in StrMembers(Range(SupportedVersions(ReportedImage)))
    THEN pc # "failed"
    ELSE pc = "failed" /\ err.key = "python.version"

\* C19: for every V1 document that validates, whatever submodules or search
\* keys it holds, the Specification has submodules with include ALL, an empty
\* exclude list and recursive true, and search with an empty ranking and an
\* empty ignore list.
C19_V1SubmodulesAndSearch ==
  (cls = "V1" /\ pc = "done") =>
    /\ Attribute("submodules")
         = Returned(Dict(<<KV("include", Str(ALL)), KV("exclude", EmptyList),
                           KV("recursive", Bool(TRUE))>>))
    /\ Attribute("search")
         = Returned(Dict(<<KV("ranking", EmptyDict), KV("ignore", EmptyList)>>))

\* a validated V1 document that sets submodules and search itself
C19_Witness ==
  /\ cls = "V1"
  /\ pc = "done"
  /\ HasKey(document, "submodules")
  /\ Get(Get(document, "submodules"), "recursive") = Bool(FALSE)
  /\ HasKey(document, "search")
  /\ Get(Attribute("submodules").val, "recursive") = Bool(TRUE)

\* the stages of validate() in the order of the selected generation
StageOrder ==
  IF cls = "V1" THEN <<"build", "python", "formats", "conda", "requirements_file">>
  ELSE <<"formats", "conda", "build", "python", "doc_types", "mkdocs", "sphinx",
         "submodules", "search", "keys">>

\* the position at which the i-th stage runs
PositionOf(i) == (IF cls = "V1" THEN "v1_" ELSE "v2_") \o StageOrder[i]

\* the error the i-th stage raises on the document as given, the sections of
\* the earlier stages at hand (NoErr when it passes); the sweep for unknown
\* keys reads what the earlier stages left of the document
OwnError(i) ==
  StageAt(PositionOf(i), IF PositionOf(i) = "v2_keys" THEN raw ELSE document, config,
          IF PositionOf(i) = "v1_build" THEN env_given ELSE env_config).res.err

\* C20: the stages are entered in the order of the generation; validate()
\* raises at most one error and stops there: the error is that of the stage
\* entered last, every stage before it passes on the document and has
\* populated its section, and neither the failing stage nor a later one has
\* populated a section or run.
C20_FailFast ==
  /\ entered = SubSeq(StageOrder, 1, Len(entered))
  /\ IsErr(err) <=> pc = "failed"
  /\ (pc = "failed" /\ entered # <<>>) =>
       /\ err = OwnError(Len(entered))
       /\ \A i \in 1..(Len(entered) - 1) : ~IsErr(OwnError(i))
       /\ \A i \in 1..Len(StageOrder) :
            StageOrder[i] \in DOMAIN config =>
              ((config[StageOrder[i]] # Unset) <=> i < Len(entered))

\* a V2 document with an offending build and an offending submodules section
\* has failed in the build stage
C20_Witness ==
  /\ cls = "V2"
  /\ pc = "failed"
  /\ entered = <<"formats", "conda", "build">>
  /\ err.key = "build.os"
  /\ HasKey(document, "submodules")
  /\ IsErr(V2_validate_submodules(document).err)
  /\ config.submodules = Unset

\* the build stage has just run on a build section with a catalog os
ModernBuildCase ==
  /\ cls = "V2"
  /\ last = "v2_build"
  /\ BuildGiven.t = "dict"
  /\ BuildKey("os").t = "str" /\ BuildKey("os").v \in {"ubuntu-20.04", "ubuntu-22.04"}

\* a key of the build section is absent or empty
BuildKeyEmpty(key) == BuildKey(key) = Unset \/ ~Truthy(BuildKey(key))

\* validation has failed for want of tools and commands
ToolsRequired == pc = "failed" /\ err = InvalidConfig("build.tools", CONFIG_REQUIRED)

\* build.jobs is non-empty and every job holds a list of strings
JobsGiven ==
  /\ BuildKey("jobs").t = "dict" /\ BuildKey("jobs").v # <<>>
  /\ Range(Keys(BuildKey("jobs"))) \subseteq Range(BuildJobNames)
  /\ FirstBadJob(BuildKey("jobs")) = 0

\* build.tools is a non-empty mapping of catalog tools at catalog versions
ToolsGiven ==
  /\ BuildKey("tools").t = "dict" /\ BuildKey("tools").v # <<>>
  /\ ToolsCode(BuildKey("tools")) = ""
  /\ FirstBadTool(BuildKey("tools")) = 0

JobsPrecheckPass ==
  BuildKey("jobs") = Unset
    \/ (BuildKey("jobs").t = "dict"
          /\ Range(Keys(BuildKey("jobs"))) \subseteq Range(BuildJobNames))

BothDocTools == cls = "V2" /\ HasKey(document, "sphinx") /\ HasKey(document, "mkdocs")

DocumentBuilder == GetOr(GetOr(document, "sphinx", EmptyDict), "builder", Str("html")).v

\* the doc-type the document asks for
DocumentDoctype ==
  IF Truthy(GetOr(DocumentBuild, "commands", EmptyList)) THEN "generic"
  ELSE IF HasKey(document, "mkdocs") THEN "mkdocs"
  ELSE CASE DocumentBuilder = "html" -> "sphinx"
         [] DocumentBuilder \in {"htmldir", "dirhtml"} -> "sphinx_htmldir"
         [] DocumentBuilder = "singlehtml" -> "sphinx_singlehtml"
         [] OTHER -> "none"

\* C23: reading doctype on a validated V2 config never fails; it is generic
\* when the build commands are non-empty, else mkdocs when the mkdocs
\* section is present, else the resolved sphinx builder: sphinx for html,
\* sphinx_htmldir for htmldir and dirhtml, sphinx_singlehtml for singlehtml.
C23_Doctype ==
  V2Validated => Attribute("doctype") = Returned(Str(DocumentDoctype))

\* commands and a mkdocs section together: the doc-type is generic
C23_Witness ==
  /\ V2Validated
  /\ Truthy(GetOr(DocumentBuild, "commands", EmptyList))
  /\ V2_mkdocs(config) # Null
  /\ Attribute("doctype").val = Str("generic")

\* a validated document naming the dirhtml builder
C23_WitnessBuilder ==
  /\ V2Validated
  /\ DocumentBuilder = "dirhtml"
  /\ Attribute("doctype").val = Str("sphinx_htmldir")

\* the value at the end of the path name
RECURSIVE ValueAt(_, _)
ValueAt(container, name) ==
  IF Len(name) = 1 THEN Get(container, name[1])
  ELSE ValueAt(Get(container, name[1]), Tail(name))

\* the path of the pop made last, the mapping it was made on, and its outcome
CallPath == Split(call.name)
PopMade == pc = "pop" /\ call.name # ""
PopReturned(value) == call.code = "" /\ call.val = value
PopRaised(code) == call.code = code /\ raw = call.container

\* key paths that may occur in a mapping that is popped from
ProbePaths == UNION {[1..n -> {"a", "b", "c"}] : n \in 1..3}

\* p is a beginning of q
IsPrefix(p, q) == Len(p) <= Len(q) /\ SubSeq(q, 1, Len(p)) = p

\* no key off the path of the pop is removed, changed or added
OffPathKept ==
  \A q \in ProbePaths :
    /\ HasPath(raw, q) => HasPath(call.container, q)
    /\ (~IsPrefix(q, CallPath) /\ ~IsPrefix(CallPath, q) /\ HasPath(call.container, q))
         => HasPath(raw, q) /\ ValueAt(raw, q) = ValueAt(call.container, q)

\* the leaf is gone and no mapping on the path is left empty
LeafRemoved ==
  /\ ~HasPath(raw, CallPath)
  /\ \A n \in 1..(Len(CallPath) - 1) :
       HasPath(raw, SubSeq(CallPath, 1, n)) => Truthy(ValueAt(raw, SubSeq(CallPath, 1, n)))

\* every key that was popped is absent
PoppedStayAbsent == \A i \in 1..Len(entered) : ~HasPath(raw, Split(entered[i]))

\* C24 as stated: a pop of a path that is present returns the leaf, removes it
\* and removes every mapping on the path that has become empty; a pop of a
\* path that is absent returns the default, or fails with value-not-found
\* when the key is required; no key off the path is removed or changed, and
\* a key that was popped is absent for every later pop.
C24_Pop ==
  PopMade =>
    /\ HasPath(call.container, CallPath) =>
         PopReturned(ValueAt(call.container, CallPath)) /\ LeafRemoved
    /\ ~HasPath(call.container, CallPath) =>
         IF call.raise_ex THEN PopRaised(VALUE_NOT_FOUND) ELSE PopReturned(PopDefault)
    /\ OffPathKept
    /\ PoppedStayAbsent

\* a key on the path holds a value that is no mapping, so the path cannot go on
RECURSIVE Blocked(_, _)
Blocked(container, name) ==
  \/ container.t # "dict"
  \/ /\ Len(name) > 1
     /\ HasKey(container, name[1])
     /\ Blocked(Get(container, name[1]), Tail(name))

\* C24 amended: as stated when every key on the path that is present, short
\* of the leaf, holds a mapping; when one of them holds another value (as in
\* a.b on {a: 1}) the pop fails with invalid-dict whether or not the key is
\* required, and removes nothing.
C24_PopAmended ==
  PopMade =>
    /\ HasPath(call.container, CallPath) =>
         PopReturned(ValueAt(call.container, CallPath)) /\ LeafRemoved
    /\ (~HasPath(call.container, CallPath) /\ ~Blocked(call.container, CallPath)) =>
         IF call.raise_ex THEN PopRaised(VALUE_NOT_FOUND) ELSE PopReturned(PopDefault)
    /\ Blocked(call.container, CallPath) => PopRaised(INVALID_DICT)
    /\ OffPathKept
    /\ PoppedStayAbsent

\* a second pop after one that removed a.b.c and, with it, the emptied a.b
C24_Witness ==
  /\ PopMade
  /\ entered = <<"a.b.c", "a">>
  /\ HasPath(document, <<"a", "c">>)
  /\ raw = EmptyDict

\* the document holds a non-empty python.install list of mappings
InstallListCase ==
  /\ cls = "V2"
  /\ GetOr(document, "python", Null).t = "dict"
  /\ GetOr(Get(document, "python"), "install", Null).t = "list"
  /\ InstallGiven.v # <<>>
  /\ \A i \in 1..Len(InstallGiven.v) : InstallGiven.v[i].t = "dict"

\* entries that pass whatever else the document holds
PlainEntries ==
  {Dict(<<KV("requirements", Str("requirements.txt"))>>), Dict(<<KV("path", Str("."))>>)}

\* the i-th entry supplies neither requirements nor path, and the entries before it pass
FirstWithNeither(i) ==
  /\ ~HasKey(InstallGiven.v[i], "requirements")
  /\ ~HasKey(InstallGiven.v[i], "path")
  /\ \A j \in 1..(i - 1) : InstallGiven.v[j] \in PlainEntries

\* the install steps of the validated config
InstallSteps == Get(Attribute("python").val, "install").v

C25_WitnessNeither ==
  /\ InstallListCase
  /\ Len(InstallGiven.v) = 2
  /\ FirstWithNeither(2)
  /\ HasKey(InstallGiven.v[1], "path")
  /\ err = InvalidConfig("python.install.1", CONFIG_REQUIRED)

\* python.version of the document, Unset when it has none
VersionGiven == GetOr(GetOr(document, "python", EmptyDict), "version", Unset)

\* the python stage of a V2 document has just run on the legacy build path,
\* the python section of the document holding at most a version
LegacyVersionCase ==
  /\ cls = "V2"
  /\ last = "v2_python"
  /\ HasKey(config.build, "image")
  /\ GetOr(document, "python", EmptyDict).t = "dict"
  /\ Range(Keys(GetOr(document, "python", EmptyDict))) \subseteq {"version"}

\* the text the version is validated as
VersionText ==
  IF VersionGiven = Unset THEN "3"
  ELSE IF VersionGiven = Float(31) THEN "3.10"
  ELSE PyStr(VersionGiven)

\* the supported versions of the resolved image, those of the default image
\* when the catalog does not have it
ResolvedImageVersions ==
  IF Get(config.build, "image").v \in ImageNames
  THEN SupportedVersions(Get(config.build, "image").v)
  ELSE SupportedVersions("readthedocs/build:latest")

\* C26: on the V2 legacy build path python.version is "3" when absent, the
\* number 3.1 is read as "3.10", and the resulting text is accepted exactly
\* when it is one of the supported versions of the resolved build image (of
\* the default image when the catalog lacks the resolved one); otherwise
\* validation fails at python.version; the resolved version is never "3.1".
C26_LegacyVersion ==
  LegacyVersionCase =>
    IF Str(VersionText) \in Range(ResolvedImageVersions)
    THEN /\ pc # "failed"
         /\ Get(config.python, "version") = Str(VersionText)
         /\ Get(config.python, "version") # Str("3.1")
    ELSE pc = "failed" /\ err.key = "python.version"

\* the number 3.1 under the testing image resolves to "3.10"
C26_Witness ==
  /\ LegacyVersionCase
  /\ VersionGiven = Float(31)
  /\ Get(config.build, "image") = Str("readthedocs/build:testing")
  /\ Get(config.python, "version") = Str("3.10")

\* an image the catalog lacks: the versions of the default image decide
C26_WitnessFallback ==
  /\ LegacyVersionCase
  /\ Get(config.build, "image") = Str("custom/build:1")
  /\ VersionGiven = Str("3.8")
  /\ Get(config.python, "version") = Str("3.8")

\* the build stage has just run on the legacy path: a V1 document, or a V2
\* document whose build section has no os, tools, commands or apt_packages
LegacyBuildCase ==
  \/ cls = "V1" /\ last = "v1_build"
  \/ /\ cls = "V2" /\ last = "v2_build"
     /\ DocumentBuild.t = "dict"
     /\ Range(Keys(DocumentBuild)) \cap {"os", "tools", "commands", "apt_packages"} = {}

\* the image the document chooses: as text for V1, which reads str(image)
UserImage ==
  IF DocumentBuild.t # "dict" \/ ~HasKey(DocumentBuild, "image") THEN Unset
  ELSE IF cls = "V1" THEN Str(PyStr(Get(DocumentBuild, "image")))
  ELSE Get(DocumentBuild, "image")

\* the legal image names: the aliases and the numeric versions of the catalog
LegalImageNames == {"stable", "latest", "testing", "2.0", "4.0", "5.0", "6.0", "7.0"}

\* the per-project forced image, Null when there is none
ImageOverride == GetOr(Defaults(env_given), "build_image", Null)

\* C27: on the legacy build path a user-chosen image that is not a legal
\* image name fails validation at the build section; an accepted name
\* resolves to <namespace>:<name>; and when the per-project override is set
\* the resolved image is the override, whatever the document or the
\* environment defaults hold.
C27_LegacyImage ==
  LegacyBuildCase =>
    /\ (UserImage # Unset /\ ~(UserImage.t = "str" /\ UserImage.v \in LegalImageNames))
         => pc = "failed" /\ err.key = (IF cls = "V1" THEN "build" ELSE "build.image")
    /\ (UserImage.t = "str" /\ UserImage.v \in LegalImageNames)
         => /\ pc # "failed"
            /\ ~Truthy(ImageOverride)
                 => Get(config.build, "image") = Str("readthedocs/build:" \o UserImage.v)
    /\ (pc # "failed" /\ Truthy(ImageOverride)) => Get(config.build, "image") = ImageOverride

\* a V2 document choosing the stable image under a per-project override
C27_Witness ==
  /\ LegacyBuildCase
  /\ cls = "V2"
  /\ UserImage = Str("stable")
  /\ Truthy(ImageOverride)
  /\ Get(config.build, "image") = ImageOverride

\* a V1 document choosing the image 2.0 under defaults that name another image
C27_WitnessV1 ==
  /\ LegacyBuildCase
  /\ cls = "V1"
  /\ UserImage = Str("2.0")
  /\ HasKey(env_given, "build")
  /\ Get(config.build, "image") = Str("readthedocs/build:2.0")

\* the python section of a validated V1 document, empty when it has none
V1PythonGiven == GetOr(document, "python", EmptyDict)

\* pip install is enabled by the document
PipEnabled ==
  GetOr(V1PythonGiven, "pip_install", Bool(FALSE)) \in {Bool(TRUE), Num(1)}

\* setup.py install is enabled by the document or, the document being silent,
\* by the project default
SetupEnabled ==
  IF HasKey(V1PythonGiven, "setup_py_install")
  THEN Get(V1PythonGiven, "setup_py_install") \in {Bool(TRUE), Num(1)}
  ELSE Truthy(GetOr(Defaults(env_given), "install_project", Bool(FALSE)))

\* C28: the install steps of a validated V1 config begin with one
\* requirements-file step; a pip step with the retained extra requirements
\* follows when pip install is enabled, else a setuptools step without extra
\* requirements when setup.py install is enabled by the document or by the
\* project default, else nothing; with both enabled only the pip step is there.
C28_V1InstallSteps ==
  (cls = "V1" /\ pc = "done") =>
    /\ InstallSteps[1] = Dict(<<KV("requirements", config.requirements_file)>>)
    /\ Len(InstallSteps) = IF PipEnabled \/ SetupEnabled THEN 2 ELSE 1
    /\ \A i \in 2..Len(InstallSteps) : ~HasKey(InstallSteps[i], "requirements")
    /\ PipEnabled =>
         InstallSteps[2]
           = Dict(<<KV("path", Str(".")), KV("method", Str("pip")),
                    KV("extra_requirements",
                       GetOr(V1PythonGiven, "extra_requirements", EmptyList))>>)
    /\ (~PipEnabled /\ SetupEnabled) =>
         InstallSteps[2]
           = Dict(<<KV("path", Str(".")), KV("method", Str("setuptools")),
                    KV("extra_requirements", EmptyList)>>)

\* pip install and setup.py install both enabled: the pip step alone follows
C28_Witness ==
  /\ cls = "V1" /\ pc = "done"
  /\ PipEnabled
  /\ GetOr(V1PythonGiven, "setup_py_install", Null) = Bool(TRUE)
  /\ Len(InstallSteps) = 2
  /\ Get(InstallSteps[2], "method") = Str("pip")

\* setup.py install enabled by the project default alone
C28_WitnessDefault ==
  /\ cls = "V1" /\ pc = "done"
  /\ ~HasKey(V1PythonGiven, "setup_py_install")
  /\ ~PipEnabled
  /\ Len(InstallSteps) = 2
  /\ Get(InstallSteps[2], "method") = Str("setuptools")

\* a V2 document on the modern build path that declares python.version
ModernVersionCase ==
  /\ cls = "V2"
  /\ \E key \in {"os", "commands", "tools"} : HasKey(DocumentBuild, key)
  /\ GetOr(document, "python", Null).t = "dict"
  /\ HasKey(Get(document, "python"), "version")

\* the document holds nothing but the version, a valid modern build and a
\* python section of a version and valid install entries
OnlyVersionLeft ==
  /\ Range(Keys(document)) \subseteq {"version", "build", "python"}
  /\ DocumentBuild = ModernBuild
  /\ Range(Keys(Get(document, "python"))) \subseteq {"version", "install"}

\* C29: a V2 document on the modern build path that declares python.version
\* never validates; the python stage leaves the key in place, and when it is
\* all that is left the sweep fails with invalid-key at python.version; no
\* validated modern config carries a python version.
C29_ModernVersionRefused ==
  /\ ModernVersionCase =>
       /\ pc # "done"
       /\ (last = "v2_python" /\ pc # "failed") => HasPath(raw, <<"python", "version">>)
       /\ (last = "v2_keys" /\ OnlyVersionLeft)
            => pc = "failed" /\ err = InvalidConfig("python.version", INVALID_KEY)
  /\ (V2Validated /\ ModernForm) => Get(Attribute("python").val, "version") = Null

\* the build stage of V2 has just run on a build mapping with tools or commands
ToolsOrCommandsCase ==
  /\ cls = "V2"
  /\ last = "v2_build"
  /\ DocumentBuild.t = "dict"
  /\ HasKey(DocumentBuild, "tools") \/ HasKey(DocumentBuild, "commands")

\* C30: a V2 build mapping that holds tools or commands needs an os: without
\* one validation fails at build.os with value-not-found, whatever tools,
\* jobs and commands hold; with an os that is not in the catalog it fails at
\* build.os too.
C30_OsRequired ==
  ToolsOrCommandsCase =>
    /\ ~HasKey(DocumentBuild, "os")
         => pc = "failed" /\ err = InvalidConfig("build.os", VALUE_NOT_FOUND)
    /\ (HasKey(DocumentBuild, "os")
          /\ Get(DocumentBuild, "os") \notin {Str("ubuntu-20.04"), Str("ubuntu-22.04")})
         => pc = "failed" /\ err.key = "build.os" /\ err.code # VALUE_NOT_FOUND

\* no os, and tools and commands that would fail on their own
C30_Witness ==
  /\ ToolsOrCommandsCase
  /\ ~HasKey(DocumentBuild, "os")
  /\ GetOr(DocumentBuild, "tools", Null) = Str("x")
  /\ GetOr(DocumentBuild, "commands", Null) = Str("x")
  /\ err = InvalidConfig("build.os", VALUE_NOT_FOUND)

====
